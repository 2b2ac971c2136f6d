SPECIFICATION Spec
CONSTANTS Limit=2 MaxInvalid=2 MaxGen=3 MaxRevision=2 MaxBatch=1 None=None Saved={"read","save"}
CONSTANT Offers = {{"fetch","save"}}
INVARIANT OriginsAreOwn
CHECK_DEADLOCK FALSE
