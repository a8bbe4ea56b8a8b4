\* Two API instances, or one standalone worker (no reaper, claims what is in
\* processing again); two events, one of a type the API has no handler for.
CONSTANTS
    w1 = w1
    w2 = w2
    w3 = w3
    e1 = e1
    e2 = e2
    NoJob = NoJob
    Events = {e1, e2}
    InProcess <- MCInProcess
    Standalone <- MCStandalone
    Deployments <- MCDeployments
    HandledInProcess = {e1}
    HandledStandalone = {e1, e2}
    Resyncable = {e1}
    MaxAttempts = 2
    BatchLimit = 2
    MaxFaults = 2
    MaxResyncs = 1

SPECIFICATION FairSpec

INVARIANTS
    DoneWasDelivered
    DeadGaveUp
    OneHolder
    RedeliveryHasCause

PROPERTIES
    DoneStays
    Settles
