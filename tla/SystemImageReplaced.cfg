\* Two builders find the disk missing at the same moment; nothing fails.
SPECIFICATION Spec
CONSTANTS
    Builders = {b1, b2}
    Nobody = Nobody
    Faults = {}
INVARIANT NoGuestLosesItsDisk
