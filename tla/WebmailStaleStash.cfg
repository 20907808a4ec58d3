SPECIFICATION MCSpec
CONSTANTS
    MailSlices = {"shell"}
    MaxRestarts = 1
    Boxes = {noc, ann}
    RoleBoxes = {noc}
    Invites = {i1, i2}
    Links = {l1, l2}
    Requests = {q1, q2}
    Tasks = {t1, t2}
    forgotMaxPerMbox = 1
    MaxPw = 3
    None = None
    MailKeys = {k1}
    Challenges = {c1, c2}
    MaxCount = 3
    SendKeys = {s1, s2}
    Calls = {r1, r2}
    Addresses = {a1, a2}
    Editors = {e1, e2}
    Letters = {m1, m2, m3}
INVARIANTS
    ShellResetWipesStash
CHECK_DEADLOCK FALSE
