SPECIFICATION MCSpec
CONSTANTS
    Slices = {"devices"}
    MaxBoots = 1
    MaxUses = 2
    noc = noc
    ann = ann
    Users = {noc, ann}
    FirstUser = noc
    AlphaOrder <- MCAlphaOrder
    None = None
    Passwords = {pw1}
    Secrets = {otp1}
    Passkeys = {pk1}
    SshKeys = {key1}
    Codes = {code1}
    Providers <- MCProviders
    Subjects = {x1}
    Devices = {d1, d2}
    Savers = {w1, w2}
    SshMaxKeys = 1
    MaxDevices = 2
    TrustDays = 0
    MaxDay = 1
    MaxMints = 3
    Tickets = {t1, t2}
    Invites = {i1, i2}
    ApiTokens = {a1, a2}
    Links = {l1}
    InviteMax = 1
    TokenMax = 1
    TermUsers = {u1, u2}
    TermTickets = {tt1, tt2, tt3}
    Sockets = {c1, c2}
    termMaxConcurrent = 1
    termIdleTimeout = 1
    termMaxSession = 2
    termTicketRateMax = 1
    NoUser = NoUser
INVARIANTS
  TrustedBrowsersSignIn
CHECK_DEADLOCK FALSE
