SPECIFICATION Spec
CONSTANTS
    c1 = c1  c2 = c2  c3 = c3
    t1 = t1  t2 = t2
    m1 = m1  m2 = m2
    Conns = {c1, c2, c3}
    Tokens = {t1, t2}
    Machines = {m1, m2}
    TokenOf <- TwoTokens
    MachineOf <- OneMachine
    None = None
    MaxMishaps = 2
SYMMETRY Attempts
CHECK_DEADLOCK FALSE
INVARIANTS SingleIssue OneActive FilesSound StoredIsActive ClaimGoesBack
PROPERTY RevokedStays
