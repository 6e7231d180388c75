SPECIFICATION CredentialSpec
CONSTANTS
    Stripes = {i1, i2}
    Consent = {c1, c2}
    MaxTokens = 3
    MaxTokenCrashes = 1
INVARIANT CredentialsForgotten
CHECK_DEADLOCK FALSE
