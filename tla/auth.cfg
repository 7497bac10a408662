\* One configuration, two lives of the loop and two operations are enough for the
\* effects of one life on the next, two callers of one socket, and a secret key
\* that an earlier Prepare() has left; one fault for each way a step can fail.
\* Two ids of GetKey(): one that is made from the key pair and the one that is not.
\* The application may stop at any time, so a state with no step is no error.
SPECIFICATION Spec
CONSTANTS
    MaxConfigs = 1
    MaxLives = 2
    MaxWork = 2
    MaxFaults = 1
    Credentials = {"both"}
    Jobs = {"encrypt public", "decrypt raw text"}
    KeyIds = {"CERTIFICATE", "SECRET_KEY"}
CHECK_DEADLOCK FALSE
INVARIANTS
    AnswerIsOwn
    
    

    
