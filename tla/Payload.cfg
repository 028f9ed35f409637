CONSTANT Ops <- AllOps
SPECIFICATION Spec
INVARIANTS TypeOK MasksMeanTheirFlags ReportedByType TypeIsTheInodes EventTypeIsTheProbes RetvalIsTheResult EndpointsAreTheSockets FlagsAreTheFiles
