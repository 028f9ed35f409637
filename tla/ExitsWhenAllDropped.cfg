CHECK_DEADLOCK FALSE
CONSTANTS
    Threads = {t1}
    Size = 2
    Owners = {file}
SPECIFICATION FairSpec
PROPERTY ExitsWhenAllDropped
