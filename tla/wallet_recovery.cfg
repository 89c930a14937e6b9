SPECIFICATION WalletSpec
CONSTANTS
    f1 = f1
    f2 = f2
    b1 = b1
    Backup = {b1}
    Window = {w1}
    Asker = {f1, f2}
    Recovery = {f1, f2}
    Setup = f0
    WindowLength = 1
    MaxAttempts = 2
    MaxTime = 2
    Nil = Nil
    Acceptance = {i1, i2}
    Open = {o1}
    Targeted = {o2}
    OfferLimit = 1
    MaxEvents = 3
    None = None
    ChallengeTtl = 1
    SessionTtl = 1
    MaxRestarts = 1
    BackupOf <- MCOneBackup
INVARIANTS CancelIsFinal BackupsOpen CardsHaveKeys
PROPERTIES RotationEndsSessions
CHECK_DEADLOCK FALSE
