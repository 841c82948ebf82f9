\* All actions; the client of c1 may stop reading.
CONSTANTS
    c1 = c1
    c2 = c2
    alice = alice
    bob = bob
    None = None
    First = 3
    Second = 0
    KeysOf <- MCKeysOf
    Events = 1
    Conns = {c1, c2}
    Addresses = {alice, bob}
    Listeners = {l1}
    Members <- MCMembers
    Owners = {bob}
    DatabaseFails = FALSE
    MayStall = {c1}
    MaxServed <- MCMaxServed
SPECIFICATION Spec
INVARIANTS TypeOK RegistryLive DeliveredToAddressee InOrder
CHECK_DEADLOCK FALSE
