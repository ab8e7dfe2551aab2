CONSTANTS
    Nil = Nil
    d1 = d1
    d2 = d2
    Days = {d1, d2}
    FirstDay = d1
    Capable = TRUE
    Queries = {q0, q1}
    NoQuery = q0
    MaxPicks = 3
    MaxSearches = 3
    MaxStarts = 2
    MaxFrames = 1
    MaxMarks = 1
    Emails = {"owner", "member", "guest"}
    Subdomains = {"acme"}
    Areas = {"checkIn", "eventos"}
    MaxAccounts = 3
    Org = "acme"
    FirstEmails <- OwnerAndMember
    MaxTeamClicks = 3
    MaxTeamLosses = 1
    Keep = Keep
    Names = {"acme", "beta", "gama"}
    Taken = {"gama"}
    Logos = {"logo"}
    FirstName = "acme"
    MaxOrgClicks = 3
    MaxOrgLosses = 1
    MaxDays = 2
    MaxTickets = 1
    MaxEntries = 5
    MaxCreates = 3
    MaxWizLosses = 1
    Texts = {"a", "b"}
    Empty = "-"
    Guests = {"g1", "g2"}
    MaxEvClicks = 3
    MaxEvLosses = 1
    Drops <- AroundTheStage
    Styles = {"s", "t"}
    FirstStyle = "s"
    MaxCrClicks = 4
    MaxCrLosses = 1
    Attendees = {"p1", "p2", "p3"}
    Absent = {"p3"}
    Hours = {2, 999}
    MaxCeClicks = 3
    MaxCeLosses = 1
SPECIFICATION Spec
INVARIANTS TypeOK OnlyTypedIsSent SettingsShowWhatIsStored SentIsReviewed OneEventEach
    SearchCatchesUp CameraReleased ScannedForDayShown
    EventShownIsTrue ShownSentIsOnItsWay SavedIsStored
CHECK_DEADLOCK FALSE
