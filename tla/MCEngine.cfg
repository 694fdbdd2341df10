SPECIFICATION Spec
CONSTANTS
    MAIN = MAIN  AUX = AUX
    r1 = r1  r2 = r2  r3 = r3
    m1 = m1  m2 = m2  m3 = m3  m4 = m4
    NoMatch = NoMatch
    Failure = Failure
    Module <- MCModule
    Rule <- MCRule
    Match <- MCMatch
    ModuleOf <- MCModuleOf
    RuleOf <- MCRuleOf
    Basis <- MCBasis
    Complexity <- MCComplexity
    AutoFocus = {r3}
    Dynamic = {r1}
    Breaks = {r3}
    Salience = {0, 10}
    Random = {1}
    Limits <- MCLimits
    Allowed = {"depth", "mea"}
    MaxTag = 3
    MaxFocus = 3
INVARIANT
    AgendaInv
PROPERTIES
    FiresTheBest
    SalienceIsCurrent
