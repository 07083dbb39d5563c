CONSTANTS
    Services = {"e1", "w1", "w2"}
    PreferredTechnologies <- WifiFirst
    Type <- MCType
    Name <- MCName
    Order <- MCOrder
    Transport <- MCTransport
    Strengths = {0, 1}
SPECIFICATION Spec
PROPERTIES
    ConnectedSorted
