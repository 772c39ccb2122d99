\* A log of up to four records, whose last one ends six bytes before the end
\* of NVRAM or earlier.
CONSTANTS
    Vars = {"security-mode", "security-#badlogins", "security-password"}
    Secure = {"security-password"}
    SecurityMode = "security-mode"
    BadLogins = "security-#badlogins"
    NoLogins = "middle"
    Values = {"short", "middle", "long"}
    Default <- MCDefault
    EntryLen <- Sevens
    Size = 34
    Torn = FALSE
    MaxCrashes = 2
    MaxFailures = 2
SPECIFICATION NvramSpec
INVARIANTS Kept 
CHECK_DEADLOCK FALSE
