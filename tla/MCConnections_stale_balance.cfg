\* One listener and requests.
CONSTANTS
    c1 = c1
    c2 = c2
    alice = alice
    bob = bob
    None = None
    First = 1
    Second = 0
    KeysOf <- MCKeysOf
    Events = 1
    Conns = {c1, c2}
    Addresses = {alice, bob}
    Listeners = {l1}
    Members <- MCMembers
    Owners = {alice, bob}
    DatabaseFails = FALSE
    MayStall = {}
    MaxServed <- MCMaxServed
SPECIFICATION Spec
INVARIANT ClientsUpToDate
CHECK_DEADLOCK FALSE
