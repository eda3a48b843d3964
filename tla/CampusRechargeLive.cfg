CONSTANTS
    Payments = {w}
    Wechat = {w}
    Transfers = {t1}
    NoPayment = NoPayment
    Card = Card
    Settings = Settings
    Window = Window
    NoTransfer = NoTransfer
    NoJournal = NoJournal
    MaxArchived = 1
    Overlap = TRUE
    MaxRestarts = 1
SPECIFICATION FairSpec
PROPERTIES SubmissionSettles
