SPECIFICATION Spec
CONSTANTS
    SMSS = 4
    MaxWnd = 24
    MaxSsthresh = 99
    Thresh = 3
INVARIANTS WindowBounds RecoveryDeflates RecoveryIffThreshold OneRexmitPerEpisode
PROPERTY NoGrowthOnExit
