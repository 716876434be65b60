\* Starts, stops, crashes and reboots, with three payloads to send.
SPECIFICATION FairSpec
CONSTANTS
    Envelopes = {e1, e2, e3}
    MaxQueue = 2
    MaxRetries = 2
    NoEnvelope = NoEnvelope
INVARIANTS
    OnePlace
    AttemptsBounded
    OneLossAtMost
PROPERTIES
    EndReported
    Unwinds
