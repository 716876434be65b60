\* A receiver that fails until the queue is full.
SPECIFICATION FairSpec
CONSTANTS
    Envelopes = {e1, e2}
    MaxQueue = 1
    MaxRetries = 2
    NoEnvelope = NoEnvelope
PROPERTIES
    Settled
