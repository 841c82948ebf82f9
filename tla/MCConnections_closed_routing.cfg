\* Forwards in an app session that is closed.
CONSTANTS
    c1 = c1
    c2 = c2
    alice = alice
    bob = bob
    None = None
    First = 3
    Second = 0
    KeysOf <- MCKeysOf
    Events = 1
    Conns = {c1, c2}
    Addresses = {alice, bob}
    Listeners = {l1}
    Members <- MCMembers
    Owners = {alice, bob}
    DatabaseFails = FALSE
    MayStall = {}
    MaxServed <- MCMaxServed
SPECIFICATION Spec
PROPERTY ClosedNotRouted
CHECK_DEADLOCK FALSE
