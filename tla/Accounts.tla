------------------------------ MODULE Accounts ------------------------------
(***************************************************************************)
(* The accounts of the service: signing in and changing one's password     *)
(* (app/api/routes_auth.py), the admin's routes that create, close, reopen *)
(* and reset them (app/api/routes_admin.py), and the token each request is *)
(* judged by (app/security.py).                                            *)
(*                                                                         *)
(* No route locks a user's row.  A request authenticates, reads, spends a  *)
(* few hundred milliseconds on password hashes and writes what it computed *)
(* from what it read, so requests on one account may cross.                *)
(***************************************************************************)
EXTENDS Integers, FiniteSets

CONSTANTS
    Names,       \* user names
    lower,       \* lower[u]: the name u is the same person's as
    Admins,      \* the accounts whose role is admin
    Founders,    \* the accounts there are at first
    Calls,       \* requests in flight at one time
    Changes      \* bound on the requests that write

ASSUME AccountsAssumption ==
    /\ DOMAIN lower = Names
    /\ Founders \subseteq Names /\ Admins \subseteq Names /\ Founders \cap Admins # {}
    /\ \A u, v \in Founders : lower[u] = lower[v] => u = v
    /\ Changes \in Nat

VARIABLES
    users,        \* users[u]: the row of u
    tokens,       \* the tokens that were issued
    calls,        \* calls[c]: a request and the row it read
    namelock,     \* the requests that hold the lock on creating accounts
    revocations,  \* how often u's password or standing changed
    crossed,      \* accounts two overlapping requests wrote
    duel,         \* two requests that each counted on the other's admin closed both
    changes

accountVars == <<users, tokens, calls, namelock, revocations, crossed, duel, changes>>

NoUser == [there |-> FALSE, active |-> FALSE, serial |-> 0]
User == [there : BOOLEAN, active : BOOLEAN, serial : Nat]
NoCall == [pc |-> "idle", op |-> "none", by |-> "none", on |-> "none", row |-> NoUser, born |-> 0]

AccountsTypeOK ==
    /\ users \in [Names -> User]
    /\ \A t \in tokens : t.of \in Names /\ t.serial \in Nat /\ t.born \in 0 .. revocations[t.of]
    /\ \A c \in Calls : calls[c].pc \in {"idle", "read", "count", "write", "mint"}
    /\ namelock \subseteq Calls
    /\ crossed \subseteq Names /\ duel \in BOOLEAN /\ changes \in 0 .. Changes

AccountsInit ==
    /\ users = [u \in Names |-> [NoUser EXCEPT !.there = u \in Founders, !.active = u \in Founders]]
    /\ tokens = {}
    /\ calls = [c \in Calls |-> NoCall]
    /\ namelock = {}
    /\ revocations = [u \in Names |-> 0]
    /\ crossed = {} /\ duel = FALSE
    /\ changes = 0
-----------------------------------------------------------------------------
\* current_user: the account is there and open, and the token is of its serial.
Works(t) == users[t.of].there /\ users[t.of].active /\ t.serial = users[t.of].serial

SignedIn(u) == \E t \in tokens : t.of = u /\ Works(t)

Step(c, pc) == calls' = [calls EXCEPT ![c].pc = pc]

Ends(c) == calls' = [calls EXCEPT ![c] = NoCall]

\* born: the session, by number, that was open when the row was read.
Token(u, row, born) == [of |-> u, serial |-> row.serial, born |-> born]

\* The requests beside c that have read the row of u and will write it.
Beside(c, u) == {d \in Calls \ {c} : /\ calls[d].on = u
                                      /\ \/ calls[d].pc \in {"count", "write"}
                                         \/ calls[d].pc = "read" /\ calls[d].by = u}

\* The requests beside c that were allowed to close an admin.
Closing(c) == {d \in Calls \ {c} : calls[d].pc = "write" /\ calls[d].op = "close" /\ calls[d].on \in Admins}

-----------------------------------------------------------------------------
\* login: the row is read, the password hashed, and the token made of the row
\* as it was read.
LogIn(c, u) ==
    /\ calls[c].pc = "idle"
    /\ users[u].there /\ users[u].active
    /\ calls' = [calls EXCEPT ![c] = [NoCall EXCEPT !.pc = "mint", !.op = "login", !.on = u, !.row = users[u],
                                                    !.born = revocations[u]]]
    /\ UNCHANGED <<users, tokens, namelock, revocations, crossed, duel, changes>>

\* What login returns; what change_password returns, from the row read again.
Mint(c) ==
    /\ calls[c].pc = "mint"
    /\ LET u == calls[c].on
       IN  tokens' = tokens \cup {IF calls[c].op = "login"
                                  THEN Token(u, calls[c].row, calls[c].born)
                                  ELSE Token(u, users[u], revocations[u])}
    /\ Ends(c)
    /\ UNCHANGED <<users, namelock, revocations, crossed, duel, changes>>

\* A request authenticates: change_password by the account itself, the other
\* two by an admin (require_admin).
AskChange(c, by, on, op) ==
    /\ calls[c].pc = "idle" /\ changes < Changes
    /\ SignedIn(by)
    /\ op = "password" => on = by
    /\ op # "password" => by \in Admins
    /\ calls' = [calls EXCEPT ![c] = [NoCall EXCEPT !.pc = "read", !.op = op, !.by = by, !.on = on,
                                                    !.row = users[by]]]
    /\ changes' = changes + 1
    /\ UNCHANGED <<users, tokens, namelock, revocations, crossed, duel>>

\* db.get: the row current_user has read is not read again.
ReadUser(c) ==
    /\ calls[c].pc = "read"
    /\ LET row == IF calls[c].on = calls[c].by THEN calls[c].row ELSE users[calls[c].on]
       IN  calls' = IF row.there
                    THEN [calls EXCEPT ![c].row = row,
                                       ![c].pc = IF calls[c].op = "close" THEN "count" ELSE "write"]
                    ELSE [calls EXCEPT ![c] = NoCall]
    /\ UNCHANGED <<users, tokens, namelock, revocations, crossed, duel, changes>>

ClosableByAnyone(c) == TRUE

\* set_active refuses to close one's own account, and the last admin's.
Closable(c) ==
    LET u == calls[c].on
    IN  /\ u # calls[c].by
        /\ u \in Admins /\ calls[c].row.active =>
               \E v \in Admins \ {u} : users[v].there /\ users[v].active

CountAdmins(c) ==
    /\ calls[c].pc = "count"
    /\ IF Closable(c) THEN Step(c, "write") ELSE Ends(c)
    /\ UNCHANGED <<users, tokens, namelock, revocations, crossed, duel, changes>>

ActiveAfter(c) ==
    CASE calls[c].op = "close" -> FALSE
      [] calls[c].op = "open" -> TRUE
      [] OTHER -> calls[c].row.active

RevokesOnPassword(c) == calls[c].op \in {"password", "reset"}

\* revoke_sessions: of a new password, and of an account closed or reopened.
Revokes(c) == calls[c].op \in {"password", "reset"} \/ ActiveAfter(c) # calls[c].row.active

\* stamp_password_change, set_active: the next serial after the one that was
\* read.  Only the columns that changed are written.
WriteUser(c) ==
    /\ calls[c].pc = "write" /\ calls[c].op # "create"
    /\ LET u == calls[c].on
           row == calls[c].row
       IN  /\ users' = [users EXCEPT ![u].serial = IF Revokes(c) THEN row.serial + 1 ELSE @,
                                     ![u].active = IF ActiveAfter(c) # row.active
                                                   THEN ActiveAfter(c) ELSE @]
           /\ revocations' = [revocations EXCEPT
                               ![u] = IF calls[c].op \in {"password", "reset"} \/ users'[u].active # users[u].active
                                      THEN @ + 1 ELSE @]
           /\ crossed' = IF Beside(c, u) # {} THEN crossed \cup {u} ELSE crossed
           /\ duel' = (duel \/ (calls[c].op = "close" /\ u \in Admins /\ Closing(c) # {}))
    /\ IF calls[c].op = "password" THEN Step(c, "mint") ELSE Ends(c)
    /\ UNCHANGED <<tokens, namelock, changes>>
-----------------------------------------------------------------------------
\* create_user: a name is taken whatever its case; the check and the insert
\* are one step under an advisory lock.
CreateUser(c, by, u) ==
    /\ calls[c].pc = "idle" /\ changes < Changes
    /\ by \in Admins /\ SignedIn(by)
    /\ namelock = {}
    /\ changes' = changes + 1
    /\ IF \E v \in Names : users[v].there /\ lower[v] = lower[u]
       THEN UNCHANGED <<calls, namelock>>
       ELSE /\ calls' = [calls EXCEPT ![c] = [NoCall EXCEPT !.pc = "write", !.op = "create", !.on = u]]
            /\ namelock' = {c}
    /\ UNCHANGED <<users, tokens, revocations, crossed, duel>>

InsertUser(c) ==
    /\ calls[c].pc = "write" /\ calls[c].op = "create"
    /\ users' = [users EXCEPT ![calls[c].on] = [there |-> TRUE, active |-> TRUE, serial |-> 0]]
    /\ namelock' = {}
    /\ Ends(c)
    /\ UNCHANGED <<tokens, revocations, crossed, duel, changes>>
-----------------------------------------------------------------------------
AccountsNext ==
    \/ \E c \in Calls, u \in Names : LogIn(c, u)
    \/ \E c \in Calls : Mint(c) \/ ReadUser(c) \/ CountAdmins(c) \/ WriteUser(c) \/ InsertUser(c)
    \/ \E c \in Calls, by, on \in Names, op \in {"password", "reset", "close", "open"} :
           AskChange(c, by, on, op)
    \/ \E c \in Calls, by, u \in Names : CreateUser(c, by, u)

AccountsSpec == AccountsInit /\ [][AccountsNext]_accountVars
-----------------------------------------------------------------------------
\* A token works exactly as long as its account is open and no password change,
\* reset, closing or reopening was committed since the row it was made of was
\* read: a reopened account's old tokens stay dead, and whoever changed the
\* password is not signed out by it.  Requests that overlap on one account are
\* left out: each writes the serial it read plus one (see README).
SessionsEnd ==
    \A t \in tokens : t.of \notin crossed =>
        (Works(t) <=> users[t.of].active /\ t.born = revocations[t.of])

\* "It is the invariant" (set_active): an admin's account is open.
AnAdminIsLeft == \E u \in Admins : users[u].there /\ users[u].active

\* An admin's account stays open unless two requests closed two admins, each
\* having counted on the other's.
AnAdminIsLeftUnlessTwoClose == duel \/ AnAdminIsLeft

\* No two accounts are one person's name in two cases, however two admins who
\* create them overlap.
OnePersonOneName ==
    \A u, v \in Names : users[u].there /\ users[v].there /\ lower[u] = lower[v] => u = v
=============================================================================
