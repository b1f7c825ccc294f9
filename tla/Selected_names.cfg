SPECIFICATION Spec
CONSTANTS
    Nil = Nil
    Ann = Ann
    Cie = Cie
    People <- AnnCie
    Nameless <- CieNameless
    Books <- TwoBooks
    Conv <- Conversion
    Keys <- OneKey
    Texts <- OneText
    MaxLen = 1
    MaxAlerts = 2
    MaxHistory = 1
    Events = {"answer", "urlbusy", "urls", "pickbusy", "book"}
    MaxEvents = 1
INVARIANTS TypeOK NameOfNumber TicketNamed FromABTrue CacheFresh
PROPERTY AskedIsDialled
