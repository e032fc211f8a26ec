CONSTANTS
    Threads = {t1, t2}
    MaxCookie = 2
    None = None
    Enoent = Enoent
SPECIFICATION FairSpec
INVARIANTS
    OneFile
    

    
