CONSTANTS
    Payments = {w, a, b}
    Wechat = {w}
    Transfers = {t1, t2}
    NoPayment = NoPayment
    Card = Card
    Settings = Settings
    Window = Window
    NoTransfer = NoTransfer
    NoJournal = NoJournal
    MaxArchived = 1
    Overlap = FALSE
    MaxRestarts = 1
SPECIFICATION Spec
INVARIANTS TransferredOnce SubmissionOnRecord
PROPERTIES EndedStaysEnded KeepsLedger
SYMMETRY Symmetry
CONSTRAINT AtMostThree
