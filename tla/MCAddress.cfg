SPECIFICATION AddressSpec
CONSTANTS
    Hosts4 <- McHosts4
    Hosts6 <- McHosts6
    Ports  <- McPorts
    Texts  <- McTexts
INVARIANTS
    AddressTypeOK
    RoundTrip
