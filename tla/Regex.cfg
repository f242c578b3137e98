CONSTANTS
    RequiredMax = 2
    PrefixMax = 3
    Regexes <- TheRegexes
    Calls <- TheCalls
SPECIFICATION RegexSpec
INVARIANTS AnswersAreMeaning GroupsNest
CHECK_DEADLOCK FALSE
