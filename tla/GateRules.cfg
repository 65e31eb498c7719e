\* Every switch of the policy, every kind of API, every course of the requests to the providers.
SPECIFICATION GateSpec
CONSTANTS
    topic = topic
    address = address
    query = query
    place = place
    lookup = lookup
    booking = booking
    local = local
    remote = remote
    gone = gone
    Types = {topic, address}
    Extractors = {query, place}
    Families = {lookup, booking}
    Providers = {local, remote, gone}
    Configured = {local, remote}
    Retried = {local}
    Unit = 3
    Pending = Pending
    Policies <- SomePolicies
    Ontologies <- SomeOntologies
    Entries <- SomeEntries
    EventInputs <- SomeEvents
    Replies <- SomeReplies
INVARIANTS NothingBlockedPersists ModelOnlyNarrows RequiredModelConsents
CHECK_DEADLOCK FALSE
