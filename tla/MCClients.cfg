SPECIFICATION Spec
CONSTANTS
    pa = pa
    pb = pb
    gb = gb
    Numbers = {a, b}
    Allowed = {a}
    Texted = {pa}
    POLICIES <- PolicyList
    Page = 1
    OptionMap <- TwoOptions
    Exit = Exit
    Root = Root
    Messages = {m1, m2}
    Callers = {a}
    Countries = {gb}
    PolicyIds = {pa}
    PoliciesOf <- PoliciesByCountry
    OptionsOf <- OptionsByPolicy
    Attempts = {t1, t2}
    MaxClicks = 2
INVARIANTS PhoneSafe WebSafe
PROPERTY ClientsSettle
CHECK_DEADLOCK FALSE
