SPECIFICATION Spec
CONSTANTS
    ProviderFamilies = {"Ed", "RSA", "EC"}
    Lifetime = 1
    Leeway = 1
    RustIssuer = "https://appgate.example.com"
    MaxTime = 3
    MaxStarts = 2
    MaxTokens = 1
INVARIANT SignedTokenAccepted
