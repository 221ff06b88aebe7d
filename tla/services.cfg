SPECIFICATION Spec
CONSTANTS
    PoolSize = 2
    MaxExecutions = 3
    MaxBoots = 2
    Ttl = 2
    Backends <- Deployments
    Programs = {"good", "bulky", "odd", "shapeless", "raises", "endless", "forbidden"}
    RemotePrograms = {"good", "forbidden"}
    MaxRetries = 1
    MaxMishaps = 1
    Tabs = {"t1", "t2"}
    Usernames = {"ann", "bea"}
    SlugOf <- SameSlug
    Legacy <- OldAccount
    Passwords = {"old", "new"}
    MaxRequests = 4
    Tasks = {"a", "b"}
    Finished = {"a"}
    Hybrid = {"b"}
    Iterations = 1
    StreamLimits = {1, 3}
    MaxCalls <- OneListTwoDetails
    MaxActions = 2
INVARIANTS
    TypeOK
    AnswersOwnCall
    ExecutionsAccounted
    
    
PROPERTY
    ServicesSettle
CHECK_DEADLOCK FALSE
