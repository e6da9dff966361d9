---------------------------- MODULE MinuteLimiter ----------------------------
(***************************************************************************)
(* The per-process minute limiter (src/adapters/http/rate_limit.rs): a     *)
(* mutex-protected map from API key to its current window.  Every operator *)
(* below is the body of one critical section, as a function of the map and *)
(* of the instant `now' its caller sampled, so that the module that owns   *)
(* the map takes one atomic step per call.  The caller samples before it   *)
(* takes the lock, so `now' may be older than a window's started_at; the   *)
(* saturating subtraction of the code then gives 0, which, like the        *)
(* negative difference here, is below WINDOW.                              *)
(***************************************************************************)
EXTENDS Integers

CONSTANTS Keys,     \* API keys
          WINDOW    \* the length of a window, in clock ticks

ASSUME WindowAssumption == WINDOW \in Nat \ {0}

MinuteWindow == [started_at : Nat, used : Nat]

(* The HashMap: a function on the keys that have an entry.                 *)
IsWindowMap(windows) ==
    /\ DOMAIN windows \subseteq Keys
    /\ windows \in [DOMAIN windows -> MinuteWindow]

NoWindows == [k \in {} |-> [started_at |-> 0, used |-> 0]]

(* Mutant: a window lasts a tick too long.                                 *)
OpenTooLong(window, now) == now - window.started_at <= WINDOW

Open(window, now) == now - window.started_at < WINDOW

(* windows.retain(..): a reservation for any key drops the expired windows *)
(* of all keys.                                                            *)
Retained(windows, now) ==
    [k \in {x \in DOMAIN windows : Open(windows[x], now)} |-> windows[k]]

(* The window a reservation is taken from: the key's open one, else a      *)
(* fresh one that starts now.                                              *)
CurrentWindow(windows, k, now) ==
    IF k \in DOMAIN windows /\ Open(windows[k], now)
    THEN windows[k]
    ELSE [started_at |-> now, used |-> 0]

Inserted(windows, k, window) ==
    [x \in DOMAIN windows \union {k} |-> IF x = k THEN window ELSE windows[x]]

(* Mutant: one reservation too many.                                       *)
CanReserveOffByOne(windows, k, limit, now) ==
    limit > 0 /\ CurrentWindow(windows, k, now).used <= limit

(* reserve_at returns Some(reservation) iff this holds; the reservation is *)
(* the window's started_at.                                                *)
CanReserve(windows, k, limit, now) ==
    limit > 0 /\ CurrentWindow(windows, k, now).used < limit

(* The map after reserve_at.  A zero limit returns before the lock.        *)
AfterReserve(windows, k, limit, now) ==
    LET w == CurrentWindow(windows, k, now)
    IN  IF limit = 0
        THEN windows
        ELSE Inserted(Retained(windows, now), k,
                      IF w.used < limit THEN [w EXCEPT !.used = @ + 1] ELSE w)

(* Mutant: the slot is freed in whatever window the key has now.           *)
AfterReleaseAnyWindow(windows, k, reservation) ==
    IF k \in DOMAIN windows /\ windows[k].used > 0
    THEN [windows EXCEPT ![k].used = @ - 1]
    ELSE windows

(* The map after release: only the window the reservation was taken from   *)
(* gets its slot back.                                                     *)
AfterRelease(windows, k, reservation) ==
    IF /\ k \in DOMAIN windows
       /\ windows[k].started_at = reservation
       /\ windows[k].used > 0
    THEN [windows EXCEPT ![k].used = @ - 1]
    ELSE windows

=============================================================================
