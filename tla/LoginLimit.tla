----------------------------- MODULE LoginLimit -----------------------------
(***************************************************************************)
(* The limits on sign-in attempts of one API process (app/ratelimit.py): a *)
(* table of recent attempts per key, the attempts of a key pruned when it  *)
(* is asked about, and keys with nothing left swept once in a while.       *)
(*                                                                         *)
(* A sign-in asks, checks the password, and reports a success: a step is   *)
(* one call that holds the module's lock, and others come between the two. *)
(* A call reads the clock just before it waits for the lock; here it reads *)
(* it with the lock in hand.                                               *)
(***************************************************************************)
EXTENDS Integers, Sequences, FiniteSets, FiniteSetsExt

CONSTANTS
    Callers,                     \* [name, ip]: who signs in, from where
    IP_MAX_ATTEMPTS, IP_WINDOW_SEC,
    USER_MAX_ATTEMPTS, USER_WINDOW_SEC,
    SWEEP_EVERY_SEC,
    Horizon, Knocks              \* bounds: of the clock, of attempts and successes

ASSUME LimitAssumption ==
    /\ {IP_MAX_ATTEMPTS, USER_MAX_ATTEMPTS} \subseteq Nat \ {0}
    /\ {IP_WINDOW_SEC, USER_WINDOW_SEC, SWEEP_EVERY_SEC, Horizon, Knocks} \subseteq Nat

VARIABLES
    clock,
    ip_hits, user_hits,   \* the attempts of each key, oldest first
    last_sweep,
    checking,             \* of each caller, the passwords being checked
    knocks                \* every attempt and success: [caller, at, allowed, good]

limitVars == <<clock, ip_hits, user_hits, last_sweep, checking, knocks>>

Addresses == {caller.ip : caller \in Callers}

LimitTypeOK ==
    /\ ip_hits \in [Addresses -> Seq(0 .. clock)]
    /\ user_hits \in [Callers -> Seq(0 .. clock)]
    /\ last_sweep \in 0 .. clock
    /\ checking \in [Callers -> 0 .. Knocks]

LimitInit ==
    /\ clock = 0
    /\ ip_hits = [ip \in Addresses |-> <<>>]
    /\ user_hits = [caller \in Callers |-> <<>>]
    /\ last_sweep = 0
    /\ checking = [caller \in Callers |-> 0]
    /\ knocks = <<>>
-----------------------------------------------------------------------------
\* The attempts that are too old stand in front: what is left of a key's begins
\* with the first that is not.
PruneAtWindow(hits, window) ==
    LET fresh == {k \in 1 .. Len(hits) + 1 : k \in DOMAIN hits => clock - hits[k] < window}
    IN  SubSeq(hits, Min(fresh), Len(hits))

Prune(hits, window) ==
    LET fresh == {k \in 1 .. Len(hits) + 1 : k \in DOMAIN hits => clock - hits[k] <= window}
    IN  SubSeq(hits, Min(fresh), Len(hits))

SweepDue == clock - last_sweep >= SWEEP_EVERY_SEC

\* A key without attempts and a key that was dropped are the same here.
Swept(table, window) == IF SweepDue THEN [key \in DOMAIN table |-> Prune(table[key], window)] ELSE table

Noted(caller, allowed, good) ==
    knocks' = Append(knocks, [caller |-> caller, at |-> clock, allowed |-> allowed, good |-> good])

\* login_allowed.  A refused attempt leaves no trace.
SignIn(caller) ==
    LET by_ip == Swept(ip_hits, IP_WINDOW_SEC)
        by_user == Swept(user_hits, USER_WINDOW_SEC)
        of_ip == Prune(by_ip[caller.ip], IP_WINDOW_SEC)
        of_user == Prune(by_user[caller], USER_WINDOW_SEC)
        ip_full == Len(of_ip) >= IP_MAX_ATTEMPTS
        allowed == ~ip_full /\ Len(of_user) < USER_MAX_ATTEMPTS
    IN  /\ Len(knocks) < Knocks
        /\ last_sweep' = IF SweepDue THEN clock ELSE last_sweep
        /\ ip_hits' = [by_ip EXCEPT ![caller.ip] = IF allowed THEN Append(of_ip, clock) ELSE of_ip]
        /\ user_hits' = [by_user EXCEPT ![caller] =
                            IF ip_full THEN @
                            ELSE IF allowed THEN Append(of_user, clock) ELSE of_user]
        /\ checking' = IF allowed THEN [checking EXCEPT ![caller] = @ + 1] ELSE checking
        /\ Noted(caller, allowed, FALSE)
        /\ UNCHANGED clock

\* The password of an attempt was wrong, or of an account that is closed.
Turned(caller) ==
    /\ checking[caller] > 0
    /\ checking' = [checking EXCEPT ![caller] = @ - 1]
    /\ UNCHANGED <<clock, ip_hits, user_hits, last_sweep, knocks>>

\* It was right: login_succeeded drops what is recorded of that name from that
\* address by now.
Succeeded(caller) ==
    /\ checking[caller] > 0 /\ Len(knocks) < Knocks
    /\ checking' = [checking EXCEPT ![caller] = @ - 1]
    /\ user_hits' = [user_hits EXCEPT ![caller] = <<>>]
    /\ Noted(caller, FALSE, TRUE)
    /\ UNCHANGED <<clock, ip_hits, last_sweep>>

TimePasses ==
    /\ clock < Horizon
    /\ clock' = clock + 1
    /\ UNCHANGED <<ip_hits, user_hits, last_sweep, checking, knocks>>

LimitNext ==
    \/ \E caller \in Callers : SignIn(caller) \/ Turned(caller) \/ Succeeded(caller)
    \/ TimePasses

LimitSpec == LimitInit /\ [][LimitNext]_limitVars
-----------------------------------------------------------------------------
\* The attempts before the k-th that were allowed, by its address within the
\* window, and by its name from its address since a sign-in of that name last
\* succeeded.
Before(k) == {j \in 1 .. k - 1 : knocks[j].allowed}

ByAddress(k) == {j \in Before(k) : /\ knocks[j].caller.ip = knocks[k].caller.ip
                                   /\ knocks[k].at - knocks[j].at <= IP_WINDOW_SEC}

ByName(k) == {j \in Before(k) : /\ knocks[j].caller = knocks[k].caller
                                /\ knocks[k].at - knocks[j].at <= USER_WINDOW_SEC
                                /\ \A i \in j .. k - 1 : knocks[i].caller = knocks[k].caller
                                                         => ~knocks[i].good}

\* An attempt is let through exactly when fewer than the limit were let through
\* within the window, from its address and, since a sign-in last succeeded, for
\* its name: whatever was swept in between, no more are let through, and
\* knocking while refused does not keep anybody out longer.  A success forgets
\* also the attempts that were recorded while its password was being checked.
LimitIsExact ==
    \A k \in DOMAIN knocks :
        ~knocks[k].good =>
            (knocks[k].allowed <=> /\ Cardinality(ByAddress(k)) < IP_MAX_ATTEMPTS
                                   /\ Cardinality(ByName(k)) < USER_MAX_ATTEMPTS)
=============================================================================
