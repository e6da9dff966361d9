\* One browser with two tabs, one email, one operator.
CONSTANTS
    Browsers = {b}
    Requests = {r1, r2}
    Operators = {o}
    Emails = {e}
    Passwords = {p1, p2}
    Malformed = Malformed
    Seed = Seed
    None = None
    SESSION_ABSOLUTE_TTL = 3
    SESSION_IDLE_TTL = 2
    DEMO_INTENT_TTL = 1
    MaxNow = 3
    Failing = {"capability", "commit", "create_demo_intent", "demo", "find_session", "login", "lookup", "rehash", "revoke_session", "signup"}
SPECIFICATION Spec
SYMMETRY Symmetry
CHECK_DEADLOCK FALSE
INVARIANT SignupAtomic
INVARIANT SessionsRotate
INVARIANT OneKeyPerIntent
PROPERTY SessionDeathIsFinal
PROPERTY PasswordKept
