CONSTANTS
    Payments = {w}
    Wechat = {w}
    Transfers = {t1, t2}
    NoPayment = NoPayment
    Card = Card
    Settings = Settings
    Window = Window
    NoTransfer = NoTransfer
    NoJournal = NoJournal
    MaxArchived = 1
    Overlap = TRUE
    MaxRestarts = 1
SPECIFICATION Spec
INVARIANTS TransferredOnce
SYMMETRY Symmetry
CONSTRAINT PlainFormUnused
