\* Records of any length; no write fails and power stays on.
CONSTANTS
    Vars = {"security-mode", "security-#badlogins", "security-password"}
    Secure = {"security-password"}
    SecurityMode = "security-mode"
    BadLogins = "security-#badlogins"
    NoLogins = "middle"
    Values = {"short", "middle", "long"}
    Default <- MCDefault
    EntryLen <- Others
    Size = 34
    Torn = FALSE
    MaxCrashes = 0
    MaxFailures = 0
SPECIFICATION NvramSpec
INVARIANT Kept
CHECK_DEADLOCK FALSE
