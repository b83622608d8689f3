\* Two consoles, three lines.
SPECIFICATION Spec
CONSTANTS
    c1 = c1
    c2 = c2
    Clients <- MCClients
    Words <- MCWords
    Texts <- MCTexts
    Accounts <- MCAccounts
    MaxLines = 3
SYMMETRY Symmetry
INVARIANTS
    Understood
    ShownInOrder
    OutcomesTrue
    SpeakersTrue
CHECK_DEADLOCK FALSE
