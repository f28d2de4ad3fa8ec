---------------------------- MODULE ServiceProofs ----------------------------
(***************************************************************************)
(* The services: who may act on accounts, what one account may have and    *)
(* spend, and what a deployment of instances and workers promises.         *)
(*                                                                         *)
(* Accounts: whoever is about to insert one holds the lock under which it  *)
(* looked, and the name it looked for is still free (IInv).  A token is    *)
(* dead once a change of its account was committed after the row it was    *)
(* made of was read, unless two requests crossed on that account           *)
(* (SessionInv).  A request that counted the other admins and is about to  *)
(* close one still finds another open (AdminInv).                          *)
(*                                                                         *)
(* Spending: whoever counted holds the account, so what was counted still  *)
(* has its place (PlacesInv).  Every attempt that may yet buy was allowed  *)
(* when the budget was last read, so what is written down plus the         *)
(* attempts under way and to come stays within a bound (BudgetInv).        *)
(*                                                                         *)
(* LoginLimit: the hits of a key, pruned, stand one for one for the        *)
(* attempts within the window that count against it (LimitInv), so the     *)
(* length that is compared with the limit is their number.                 *)
(*                                                                         *)
(* Fleet: whoever is upgrading holds the lock alone and was right when it  *)
(* judged, and no report is newer than the round it is of.                 *)
(*                                                                         *)
(* ProviderKeys: what start-up read is still what is stored when it        *)
(* writes, because the row stays locked from the one to the other.         *)
(***************************************************************************)
EXTENDS Accounts, Spending, LoginLimit, Fleet, ProviderKeys, FiniteSetTheorems,
        WellFoundedInduction, TLAPS

LEMMA Counting == ASSUME NEW n \in Nat PROVE IsFiniteSet(1 .. n) /\ Cardinality(1 .. n) = n
<1>1. 1 \in Int /\ n \in Int /\ (1 > n => n = 0) /\ n - 1 + 1 = n
  OBVIOUS
<1>2. IsFiniteSet(1 .. n) /\ Cardinality(1 .. n) = IF 1 > n THEN 0 ELSE n - 1 + 1
  BY <1>1, FS_Interval
<1> QED
  BY <1>1, <1>2

Call == [pc : {"idle", "read", "count", "write", "mint"},
         op : {"none", "login", "password", "reset", "close", "open", "create"},
         by : Names \cup {"none"}, on : Names \cup {"none"}, row : User, born : Nat]

Typed ==
    /\ users \in [Names -> User]
    /\ calls \in [Calls -> Call]
    /\ revocations \in [Names -> Nat]
    /\ \A c \in Calls : calls[c].pc # "idle" => calls[c].on \in Names

Creating(c) == calls[c].op = "create"

\* Whoever creates an account is at the insert, and holds the lock alone.
OneCreates == \A c \in Calls : Creating(c) => calls[c].pc = "write" /\ namelock = {c}

\* Nobody has the name that is about to be inserted.
NameIsFree ==
    \A c \in Calls : Creating(c) =>
        \A v \in Names : users[v].there => lower[v] # lower[calls[c].on]

IInv == Typed /\ OneCreates /\ NameIsFree /\ OnePersonOneName
-----------------------------------------------------------------------------
LEMMA Idle == NoUser \in User /\ NoCall \in Call /\ ~(NoCall.op = "create") /\ NoCall.pc = "idle"
  BY DEF NoUser, User, NoCall, Call

LEMMA Initially == AccountsInit => IInv
<1> SUFFICES ASSUME AccountsInit PROVE IInv
  OBVIOUS
<1>1. users \in [Names -> User] /\ \A u \in Names : users[u].there <=> u \in Founders
  <2> DEFINE Founder(b) == [NoUser EXCEPT !.there = b, !.active = b]
  <2>1. \A b \in BOOLEAN : Founder(b) \in User /\ Founder(b).there = b
    BY DEF NoUser, User
  <2>2. users = [u \in Names |-> Founder(u \in Founders)]
    BY DEF AccountsInit
  <2> HIDE DEF Founder
  <2>3. \A u \in Names : (u \in Founders) \in BOOLEAN
    OBVIOUS
  <2> QED
    BY <2>1, <2>2, <2>3, Zenon
<1>2. Typed
  BY <1>1, Idle DEF AccountsInit, Typed
<1>3. OneCreates /\ NameIsFree
  BY Idle DEF AccountsInit, OneCreates, NameIsFree, Creating
<1>4. OnePersonOneName
  BY <1>1, AccountsAssumption DEF OnePersonOneName
<1> QED
  BY <1>2, <1>3, <1>4 DEF IInv

\* A step of a request that creates nothing, and no account appears.
LEMMA OtherKeeps ==
  ASSUME IInv, NEW c \in Calls, ~Creating(c), NEW r \in Call, r.op # "create",
         r.pc # "idle" => r.on \in Names,
         calls' = [calls EXCEPT ![c] = r], namelock' = namelock,
         users' \in [Names -> User], revocations' \in [Names -> Nat],
         \A u \in Names : users'[u].there = users[u].there
  PROVE  IInv'
<1>1. calls'[c] = r /\ \A d \in Calls : d # c => calls'[d] = calls[d]
  BY DEF IInv, Typed
<1>2. Typed'
  BY <1>1 DEF IInv, Typed
<1>3. OneCreates' /\ NameIsFree'
  BY <1>1 DEF IInv, OneCreates, NameIsFree, Creating
<1>4. OnePersonOneName'
  BY DEF IInv, OnePersonOneName
<1> QED
  BY <1>2, <1>3, <1>4 DEF IInv

LEMMA CreateKeeps ==
  ASSUME IInv, NEW c \in Calls, NEW by \in Names, NEW u \in Names, CreateUser(c, by, u)
  PROVE  IInv'
<1>1. users' = users /\ revocations' = revocations /\ namelock = {}
  BY DEF CreateUser
<1>2. CASE UNCHANGED <<calls, namelock>>
  BY <1>1, <1>2 DEF IInv, Typed, OneCreates, NameIsFree, Creating, OnePersonOneName
<1>3. CASE ~UNCHANGED <<calls, namelock>>
  <2> DEFINE r == [NoCall EXCEPT !.pc = "write", !.op = "create", !.on = u]
  <2>1. /\ calls' = [calls EXCEPT ![c] = r] /\ namelock' = {c}
        /\ \A v \in Names : users[v].there => lower[v] # lower[u]
    BY <1>3 DEF CreateUser
  <2>2. r \in Call /\ r.pc = "write" /\ r.on = u /\ r.op = "create"
    BY Idle DEF Call, NoCall
  <2> HIDE DEF r
  <2>3. calls'[c] = r /\ \A d \in Calls : d # c => calls'[d] = calls[d]
    BY <2>1 DEF IInv, Typed
  <2>4. \A d \in Calls : ~Creating(d)
    BY <1>1 DEF IInv, OneCreates
  <2>5. Typed'
    BY <1>1, <2>1, <2>2, <2>3 DEF IInv, Typed
  <2>6. OneCreates' /\ NameIsFree'
    BY <1>1, <2>1, <2>2, <2>3, <2>4 DEF OneCreates, NameIsFree, Creating
  <2> QED
    BY <1>1, <2>5, <2>6 DEF IInv, OnePersonOneName
<1> QED
  BY <1>2, <1>3

LEMMA InsertKeeps ==
  ASSUME IInv, NEW c \in Calls, InsertUser(c)
  PROVE  IInv'
<1> DEFINE u == calls[c].on
           row == [there |-> TRUE, active |-> TRUE, serial |-> 0]
<1>1. Creating(c) /\ calls[c].pc = "write" /\ namelock = {c} /\ u \in Names
  BY DEF InsertUser, IInv, OneCreates, Typed, Creating
<1>2. /\ users' = [users EXCEPT ![u] = row] /\ row \in User
      /\ calls' = [calls EXCEPT ![c] = NoCall] /\ revocations' = revocations
  BY DEF InsertUser, Ends, User
<1>3. \A d \in Calls : d # c => ~Creating(d)
  BY <1>1 DEF IInv, OneCreates
<1>4. calls'[c] = NoCall /\ \A d \in Calls : d # c => calls'[d] = calls[d]
  BY <1>2 DEF IInv, Typed
<1>5. Typed'
  BY <1>2, <1>4, Idle DEF IInv, Typed
<1>6. OneCreates' /\ NameIsFree'
  BY <1>3, <1>4, Idle DEF OneCreates, NameIsFree, Creating
<1>7. OnePersonOneName'
  <2>1. \A v \in Names : users[v].there => lower[v] # lower[u]
    BY <1>1 DEF IInv, NameIsFree
  <2>2. \A v \in Names : v # u => users'[v] = users[v]
    BY <1>2 DEF IInv, Typed
  <2> HIDE DEF u
  <2> QED
    BY <2>1, <2>2 DEF IInv, OnePersonOneName
<1> QED
  BY <1>5, <1>6, <1>7 DEF IInv

\* Only the columns that changed are written: no account comes to be there.
LEMMA WriteKeeps ==
  ASSUME IInv, NEW c \in Calls, WriteUser(c)
  PROVE  IInv'
<1> DEFINE u == calls[c].on
<1>1. ~Creating(c) /\ u \in Names /\ calls[c] \in Call
  BY DEF WriteUser, Creating, IInv, Typed
<1>2. PICK serial \in Nat, opened \in BOOLEAN :
          users' = [users EXCEPT ![u].serial = serial, ![u].active = opened]
  <2> DEFINE s == IF Revokes(c) THEN calls[c].row.serial + 1 ELSE users[u].serial
             a == IF ActiveAfter(c) # calls[c].row.active THEN ActiveAfter(c) ELSE users[u].active
  <2>1. users[u] \in User /\ calls[c].row \in User
    BY <1>1 DEF IInv, Typed, Call
  <2>2. s \in Nat
    BY <2>1 DEF User
  <2>3. ActiveAfter(c) \in BOOLEAN /\ users[u].active \in BOOLEAN
    BY <2>1 DEF User, ActiveAfter
  <2>4. a \in BOOLEAN
    BY <2>3
  <2>5. users' = [users EXCEPT ![u].serial = s, ![u].active = a]
    BY DEF WriteUser
  <2> QED
    BY <2>2, <2>4, <2>5
<1>3. users' \in [Names -> User] /\ \A v \in Names : users'[v].there = users[v].there
  BY <1>1, <1>2 DEF IInv, Typed, User
<1>4. revocations' \in [Names -> Nat]
  BY <1>1 DEF WriteUser, IInv, Typed
<1>5. namelock' = namelock
  BY DEF WriteUser
<1>6. CASE calls[c].op = "password"
  <2> DEFINE r == [calls[c] EXCEPT !.pc = "mint"]
  <2>1. /\ calls' = [calls EXCEPT ![c] = r] /\ r \in Call /\ r.op # "create" /\ r.on \in Names
    BY <1>1, <1>6 DEF WriteUser, Step, Call
  <2> HIDE DEF r
  <2> QED
    BY <1>1, <1>3, <1>4, <1>5, <2>1, OtherKeeps
<1>7. CASE calls[c].op # "password"
  <2>1. calls' = [calls EXCEPT ![c] = NoCall]
    BY <1>7 DEF WriteUser, Ends
  <2> QED
    BY <1>1, <1>3, <1>4, <1>5, <2>1, Idle, OtherKeeps
<1> QED
  BY <1>6, <1>7
-----------------------------------------------------------------------------
LEMMA NextKeeps == IInv /\ [AccountsNext]_accountVars => IInv'
<1> SUFFICES ASSUME IInv, [AccountsNext]_accountVars PROVE IInv'
  OBVIOUS
<1>1. /\ users \in [Names -> User] /\ revocations \in [Names -> Nat]
      /\ \A c \in Calls : calls[c] \in Call
      /\ \A c \in Calls : Creating(c) => calls[c].pc = "write"
  BY DEF IInv, Typed, OneCreates
<1>2. ASSUME NEW c \in Calls, NEW u \in Names, LogIn(c, u) PROVE IInv'
  <2> DEFINE r == [NoCall EXCEPT !.pc = "mint", !.op = "login", !.on = u, !.row = users[u],
                                 !.born = revocations[u]]
  <2>1. calls' = [calls EXCEPT ![c] = r] /\ UNCHANGED <<users, revocations, namelock>> /\ ~Creating(c)
    BY <1>1, <1>2 DEF LogIn
  <2>2. r \in Call /\ r.op # "create" /\ r.on \in Names
    BY <1>1, Idle DEF Call, NoCall
  <2> HIDE DEF r
  <2> QED
    BY <1>1, <2>1, <2>2, OtherKeeps
<1>3. ASSUME NEW c \in Calls, Mint(c) PROVE IInv'
  <2>1. /\ calls' = [calls EXCEPT ![c] = NoCall] /\ UNCHANGED <<users, revocations, namelock>>
        /\ ~Creating(c)
    BY <1>1, <1>3 DEF Mint, Ends
  <2> QED
    BY <1>1, <2>1, Idle, OtherKeeps
<1>4. ASSUME NEW c \in Calls, ReadUser(c) PROVE IInv'
  <2> DEFINE row == IF calls[c].on = calls[c].by THEN calls[c].row ELSE users[calls[c].on]
             r == [calls[c] EXCEPT !.row = row, !.pc = IF calls[c].op = "close" THEN "count" ELSE "write"]
  <2>1. ~Creating(c) /\ UNCHANGED <<users, revocations, namelock>> /\ calls[c] \in Call
    BY <1>1, <1>4 DEF ReadUser
  <2>2. CASE row.there
    <3>1. calls[c].on \in Names /\ calls' = [calls EXCEPT ![c] = r]
      BY <1>4, <2>2 DEF ReadUser, IInv, Typed
    <3>2. row \in User
      BY <1>1, <2>1, <3>1 DEF Call
    <3>3. r \in Call /\ r.op # "create" /\ r.on \in Names
      BY <2>1, <3>1, <3>2 DEF Call, Creating
    <3> HIDE DEF r
    <3> QED
      BY <1>1, <2>1, <3>1, <3>3, OtherKeeps
  <2>3. CASE ~row.there
    <3>1. calls' = [calls EXCEPT ![c] = NoCall]
      BY <1>4, <2>3 DEF ReadUser
    <3> QED
      BY <1>1, <2>1, <3>1, Idle, OtherKeeps
  <2> QED
    BY <2>2, <2>3
<1>5. ASSUME NEW c \in Calls, CountAdmins(c) PROVE IInv'
  <2>1. ~Creating(c) /\ UNCHANGED <<users, revocations, namelock>> /\ calls[c] \in Call
    BY <1>1, <1>5 DEF CountAdmins
  <2>2. CASE Closable(c)
    <3> DEFINE r == [calls[c] EXCEPT !.pc = "write"]
    <3>1. /\ calls' = [calls EXCEPT ![c] = r] /\ r \in Call
          /\ r.op # "create" /\ r.on \in Names
      BY <1>5, <2>1, <2>2 DEF CountAdmins, Step, Call, Creating, IInv, Typed
    <3> HIDE DEF r
    <3> QED
      BY <1>1, <2>1, <3>1, OtherKeeps
  <2>3. CASE ~Closable(c)
    <3>1. calls' = [calls EXCEPT ![c] = NoCall]
      BY <1>5, <2>3 DEF CountAdmins, Ends
    <3> QED
      BY <1>1, <2>1, <3>1, Idle, OtherKeeps
  <2> QED
    BY <2>2, <2>3
<1>6. ASSUME NEW c \in Calls, WriteUser(c) PROVE IInv'
  BY <1>6, WriteKeeps
<1>7. ASSUME NEW c \in Calls, InsertUser(c) PROVE IInv'
  BY <1>7, InsertKeeps
<1>8. ASSUME NEW c \in Calls, NEW by \in Names, NEW on \in Names,
             NEW op \in {"password", "reset", "close", "open"}, AskChange(c, by, on, op)
      PROVE  IInv'
  <2> DEFINE r == [NoCall EXCEPT !.pc = "read", !.op = op, !.by = by, !.on = on, !.row = users[by]]
  <2>1. calls' = [calls EXCEPT ![c] = r] /\ UNCHANGED <<users, revocations, namelock>> /\ ~Creating(c)
    BY <1>1, <1>8 DEF AskChange
  <2>2. r \in Call /\ r.op # "create" /\ r.on \in Names
    BY <1>1, Idle DEF Call, NoCall
  <2> HIDE DEF r
  <2> QED
    BY <1>1, <2>1, <2>2, OtherKeeps
<1>9. ASSUME NEW c \in Calls, NEW by \in Names, NEW u \in Names, CreateUser(c, by, u) PROVE IInv'
  BY <1>9, CreateKeeps
<1>10. CASE UNCHANGED accountVars
  BY <1>10 DEF accountVars, IInv, Typed, OneCreates, NameIsFree, Creating, OnePersonOneName
<1> QED
  BY <1>2, <1>3, <1>4, <1>5, <1>6, <1>7, <1>8, <1>9, <1>10 DEF AccountsNext

\* No two accounts are one person's name in two cases (create_user).
THEOREM NamesAreUnique == AccountsSpec => []OnePersonOneName
<1>1. IInv => OnePersonOneName
  BY DEF IInv
<1> QED
  BY <1>1, Initially, NextKeeps, PTL DEF AccountsSpec
-----------------------------------------------------------------------------
\* What a session is worth.  While no two requests crossed on an account, its
\* serial counts its revocations, and whoever will write it has read it as it is.

KnownAccount(u) ==
    /\ u \notin crossed => users[u].serial = revocations[u]
    /\ ~users[u].there => revocations[u] = 0

KnownToken(t, rows, mixed) ==
    t.of \in Names /\ rows[t.of].there /\ (t.of \notin mixed => t.serial = t.born)

KnownCall(k, rows, mixed) ==
    /\ k.pc \in {"count", "write", "mint"} /\ k.op # "create" => rows[k.on].there
    /\ k.pc = "read" => k.by \in Names /\ rows[k.by].there
    /\ /\ k.op # "create" /\ k.on \notin mixed
       /\ k.pc \in {"count", "write"} \/ (k.pc = "read" /\ k.by = k.on)
       => k.row = rows[k.on]
    /\ k.pc = "mint" /\ k.op = "login" /\ k.on \notin mixed => k.row.serial = k.born

Sessions ==
    /\ \A u \in Names : KnownAccount(u)
    /\ \A t \in tokens : KnownToken(t, users, crossed)
    /\ \A c \in Calls : KnownCall(calls[c], users, crossed)

SessionInv == IInv /\ Sessions

\* Whoever may close an admin leaves another open, but for a duel.
ClosesSafely(k, rows) ==
    k.pc = "write" /\ k.op = "close" /\ k.on \in Admins /\ k.row.active
        => \E v \in Admins \ {k.on} : rows[v].there /\ rows[v].active

Guarded == duel \/ (AnAdminIsLeft /\ \A c \in Calls : ClosesSafely(calls[c], users))

AdminInv == IInv /\ Guarded

LEMMA SessionsInitially == AccountsInit => Sessions
<1> SUFFICES ASSUME AccountsInit PROVE Sessions
  OBVIOUS
<1>1. \A u \in Names : KnownAccount(u)
  BY DEF AccountsInit, KnownAccount, NoUser
<1>2. \A c \in Calls : KnownCall(calls[c], users, crossed)
  BY DEF AccountsInit, KnownCall, NoCall
<1> QED
  BY <1>1, <1>2 DEF Sessions, AccountsInit

\* A step of one request beside the accounts.
LEMMA BesideAccounts ==
  ASSUME SessionInv, NEW c \in Calls, NEW r, calls' = [calls EXCEPT ![c] = r],
         UNCHANGED <<users, revocations, crossed>>, KnownCall(r, users, crossed),
         \A t \in tokens' : t \in tokens \/ KnownToken(t, users, crossed)
  PROVE  Sessions'
<1>1. \A d \in Calls : calls'[d] = IF d = c THEN r ELSE calls[d]
  BY DEF SessionInv, IInv, Typed
<1>2. \A u \in Names : KnownAccount(u)'
  BY DEF SessionInv, Sessions, KnownAccount
<1>3. \A t \in tokens' : KnownToken(t, users', crossed')
  BY DEF SessionInv, Sessions
<1>4. \A d \in Calls : KnownCall(calls'[d], users', crossed')
  BY <1>1 DEF SessionInv, Sessions
<1> QED
  BY <1>2, <1>3, <1>4 DEF Sessions

LEMMA NothingKnown == \A rows, mixed : KnownCall(NoCall, rows, mixed)
  BY DEF KnownCall, NoCall

\* A token is made of the row as it was read.
LEMMA LogInSessions ==
  ASSUME SessionInv, NEW c \in Calls, NEW u \in Names, LogIn(c, u)
  PROVE  Sessions'
<1> DEFINE r == [NoCall EXCEPT !.pc = "mint", !.op = "login", !.on = u, !.row = users[u], !.born = revocations[u]]
<1>1. /\ calls' = [calls EXCEPT ![c] = r] /\ UNCHANGED <<users, revocations, crossed, tokens>>
      /\ users[u].there
  BY DEF LogIn
<1>2. r.pc = "mint" /\ r.op = "login" /\ r.on = u /\ r.row = users[u] /\ r.born = revocations[u]
  BY DEF NoCall
<1> HIDE DEF r
<1>3. KnownAccount(u)
  BY DEF SessionInv, Sessions
<1>4. KnownCall(r, users, crossed)
  BY <1>1, <1>2, <1>3 DEF KnownCall, KnownAccount
<1> QED
  BY <1>1, <1>4, BesideAccounts

LEMMA MintSessions == ASSUME SessionInv, NEW c \in Calls, Mint(c) PROVE Sessions'
<1> DEFINE u == calls[c].on
           t == IF calls[c].op = "login" THEN Token(u, calls[c].row, calls[c].born)
                                         ELSE Token(u, users[u], revocations[u])
<1>1. /\ calls' = [calls EXCEPT ![c] = NoCall] /\ UNCHANGED <<users, revocations, crossed>>
      /\ tokens' = tokens \cup {t} /\ calls[c].pc = "mint"
  BY DEF Mint, Ends
<1>2. u \in Names /\ calls[c].op # "create"
  BY <1>1 DEF SessionInv, IInv, Typed, OneCreates, Creating
<1>3. KnownCall(calls[c], users, crossed) /\ KnownAccount(u)
  BY <1>2 DEF SessionInv, Sessions
<1>4. users[u].there
  BY <1>1, <1>2, <1>3 DEF KnownCall
<1>5. KnownToken(t, users, crossed)
  <2>1. CASE calls[c].op = "login"
    <3>1. t.of = u /\ t.serial = calls[c].row.serial /\ t.born = calls[c].born
      BY <2>1 DEF Token
    <3> QED
      BY <1>1, <1>2, <1>3, <1>4, <2>1, <3>1 DEF KnownCall, KnownToken
  <2>2. CASE calls[c].op # "login"
    <3>1. t.of = u /\ t.serial = users[u].serial /\ t.born = revocations[u]
      BY <2>2 DEF Token
    <3> QED
      BY <1>2, <1>3, <1>4, <3>1 DEF KnownAccount, KnownToken
  <2> QED
    BY <2>1, <2>2
<1> HIDE DEF t
<1> QED
  BY <1>1, <1>5, NothingKnown, BesideAccounts

\* Whoever asks is signed in, so its account is there.
LEMMA AskSessions ==
  ASSUME SessionInv, NEW c \in Calls, NEW by \in Names, NEW on \in Names,
         NEW op \in {"password", "reset", "close", "open"}, AskChange(c, by, on, op)
  PROVE  Sessions'
<1> DEFINE r == [NoCall EXCEPT !.pc = "read", !.op = op, !.by = by, !.on = on, !.row = users[by]]
<1>1. /\ calls' = [calls EXCEPT ![c] = r] /\ UNCHANGED <<users, revocations, crossed, tokens>>
      /\ users[by].there
  BY DEF AskChange, SignedIn, Works
<1>2. r.pc = "read" /\ r.op = op /\ r.by = by /\ r.on = on /\ r.row = users[by]
  BY DEF NoCall
<1> HIDE DEF r
<1>3. KnownCall(r, users, crossed)
  BY <1>1, <1>2 DEF KnownCall
<1> QED
  BY <1>1, <1>3, BesideAccounts

LEMMA ReadSessions == ASSUME SessionInv, NEW c \in Calls, ReadUser(c) PROVE Sessions'
<1> DEFINE row == IF calls[c].on = calls[c].by THEN calls[c].row ELSE users[calls[c].on]
           r == [calls[c] EXCEPT !.row = row, !.pc = IF calls[c].op = "close" THEN "count" ELSE "write"]
<1>1. UNCHANGED <<users, revocations, crossed, tokens>> /\ calls[c].pc = "read"
  BY DEF ReadUser
<1>2. calls[c] \in Call /\ calls[c].on \in Names /\ KnownCall(calls[c], users, crossed) /\ calls[c].op # "create"
  BY <1>1 DEF SessionInv, IInv, Typed, Sessions, OneCreates, Creating
<1>3. CASE row.there
  <2>1. calls' = [calls EXCEPT ![c] = r]
    BY <1>2, <1>3 DEF ReadUser, SessionInv, IInv, Typed
  <2>2. r.row = row /\ r.pc \in {"count", "write"} /\ r.op = calls[c].op /\ r.on = calls[c].on
    BY <1>2 DEF Call
  <2>3. users[calls[c].on].there
    BY <1>1, <1>2, <1>3 DEF KnownCall
  <2>4. calls[c].on \notin crossed => row = users[calls[c].on]
    BY <1>1, <1>2 DEF KnownCall
  <2> HIDE DEF r, row
  <2>5. KnownCall(r, users, crossed)
    BY <2>2, <2>3, <2>4 DEF KnownCall
  <2> QED
    BY <1>1, <2>1, <2>5, BesideAccounts
<1>4. CASE ~row.there
  <2>1. calls' = [calls EXCEPT ![c] = NoCall]
    BY <1>4 DEF ReadUser
  <2> QED
    BY <1>1, <2>1, NothingKnown, BesideAccounts
<1> QED
  BY <1>3, <1>4

LEMMA CountSessions == ASSUME SessionInv, NEW c \in Calls, CountAdmins(c) PROVE Sessions'
<1> DEFINE r == [calls[c] EXCEPT !.pc = "write"]
<1>1. UNCHANGED <<users, revocations, crossed, tokens>> /\ calls[c].pc = "count"
  BY DEF CountAdmins
<1>2. calls' = [calls EXCEPT ![c] = r] \/ calls' = [calls EXCEPT ![c] = NoCall]
  BY DEF CountAdmins, Step, Ends
<1>3. calls[c] \in Call /\ KnownCall(calls[c], users, crossed)
  BY DEF SessionInv, IInv, Typed, Sessions
<1>4. r.row = calls[c].row /\ r.pc = "write" /\ r.op = calls[c].op /\ r.on = calls[c].on
  BY <1>3 DEF Call
<1> HIDE DEF r
<1>5. KnownCall(r, users, crossed)
  BY <1>1, <1>3, <1>4 DEF KnownCall
<1> QED
  BY <1>1, <1>2, <1>5, NothingKnown, BesideAccounts

LEMMA CreateSessions ==
  ASSUME SessionInv, NEW c \in Calls, NEW by \in Names, NEW u \in Names, CreateUser(c, by, u)
  PROVE  Sessions'
<1> DEFINE r == [NoCall EXCEPT !.pc = "write", !.op = "create", !.on = u]
<1>1. UNCHANGED <<users, revocations, crossed, tokens>>
  BY DEF CreateUser
<1>2. UNCHANGED calls \/ calls' = [calls EXCEPT ![c] = r]
  BY DEF CreateUser
<1>3. r.pc = "write" /\ r.op = "create"
  BY DEF NoCall
<1> HIDE DEF r
<1>4. KnownCall(r, users, crossed)
  BY <1>3 DEF KnownCall
<1>5. CASE UNCHANGED calls
  BY <1>1, <1>5 DEF SessionInv, Sessions, KnownAccount
<1> QED
  BY <1>1, <1>2, <1>4, <1>5, BesideAccounts

\* A new account had no session, and no request has read it.
LEMMA InsertSessions == ASSUME SessionInv, NEW c \in Calls, InsertUser(c) PROVE Sessions'
<1> DEFINE u == calls[c].on
           row == [there |-> TRUE, active |-> TRUE, serial |-> 0]
<1>1. /\ users' = [users EXCEPT ![u] = row] /\ calls' = [calls EXCEPT ![c] = NoCall]
      /\ UNCHANGED <<revocations, crossed, tokens>> /\ Creating(c) /\ calls[c].pc = "write"
  BY DEF InsertUser, Ends, Creating
<1>2. u \in Names /\ ~users[u].there
  BY <1>1 DEF SessionInv, IInv, Typed, NameIsFree
<1>3. row.there /\ row.serial = 0
  OBVIOUS
<1> HIDE DEF u, row
<1>4. users'[u] = row /\ \A v \in Names : v # u => users'[v] = users[v]
  BY <1>1, <1>2 DEF SessionInv, IInv, Typed
<1>5. \A d \in Calls : calls'[d] = IF d = c THEN NoCall ELSE calls[d]
  BY <1>1 DEF SessionInv, IInv, Typed
<1>6. \A v \in Names : KnownAccount(v)'
  BY <1>1, <1>2, <1>3, <1>4 DEF SessionInv, Sessions, KnownAccount
<1>7. \A t \in tokens' : KnownToken(t, users', crossed')
  BY <1>1, <1>2, <1>4 DEF SessionInv, Sessions, KnownToken
<1>8. ASSUME NEW d \in Calls, d # c PROVE KnownCall(calls[d], users', crossed)
  <2>1. KnownCall(calls[d], users, crossed) /\ (calls[d].pc # "idle" => calls[d].on \in Names)
    BY DEF SessionInv, IInv, Typed, Sessions
  <2> QED
    BY <1>2, <1>4, <2>1 DEF KnownCall
<1>9. \A d \in Calls : KnownCall(calls'[d], users', crossed')
  BY <1>1, <1>5, <1>8, NothingKnown
<1> QED
  BY <1>6, <1>7, <1>9 DEF Sessions

\* A write that nobody crosses is of the row as it is; whoever has read the row
\* too crosses it.
LEMMA WriteSessions == ASSUME SessionInv, NEW c \in Calls, WriteUser(c) PROVE Sessions'
<1> DEFINE u == calls[c].on
           row == calls[c].row
           serial == IF Revokes(c) THEN row.serial + 1 ELSE users[u].serial
           opened == IF ActiveAfter(c) # row.active THEN ActiveAfter(c) ELSE users[u].active
<1>1. /\ users' = [users EXCEPT ![u].serial = serial, ![u].active = opened]
      /\ revocations' = [revocations EXCEPT
                            ![u] = IF calls[c].op \in {"password", "reset"} \/ users'[u].active # users[u].active
                                   THEN @ + 1 ELSE @]
      /\ crossed' = (IF Beside(c, u) # {} THEN crossed \cup {u} ELSE crossed)
      /\ tokens' = tokens /\ calls[c].pc = "write" /\ calls[c].op # "create"
  BY DEF WriteUser
<1>2. u \in Names /\ calls[c] \in Call /\ KnownCall(calls[c], users, crossed) /\ KnownAccount(u)
  BY <1>1 DEF SessionInv, IInv, Typed, Sessions
<1>3. users[u].there /\ (u \notin crossed => row = users[u])
  BY <1>1, <1>2 DEF KnownCall
<1>4. users \in [Names -> User] /\ revocations \in [Names -> Nat] /\ calls \in [Calls -> Call]
  BY DEF SessionInv, IInv, Typed
<1>5. u \notin crossed' => u \notin crossed /\ Beside(c, u) = {}
  BY <1>1
<1>6. PICK r : calls' = [calls EXCEPT ![c] = r] /\ (r = NoCall \/ r = [calls[c] EXCEPT !.pc = "mint"])
                /\ (r # NoCall => calls[c].op = "password")
  BY DEF WriteUser, Step, Ends
<1>7. Revokes(c) <=> calls[c].op \in {"password", "reset"} \/ ActiveAfter(c) # row.active
  BY DEF Revokes
<1> HIDE DEF serial, opened, u, row
<1>8. users'[u].serial = serial /\ users'[u].active = opened /\ users'[u].there = users[u].there
  BY <1>1, <1>2, <1>4 DEF User
<1>9. \A v \in Names : v # u => users'[v] = users[v] /\ revocations'[v] = revocations[v]
  BY <1>1, <1>2, <1>4
<1>10. \A v \in Names : users'[v].there = users[v].there
  BY <1>8, <1>9
<1>11. revocations'[u] = IF calls[c].op \in {"password", "reset"} \/ opened # users[u].active
                         THEN revocations[u] + 1 ELSE revocations[u]
  BY <1>1, <1>2, <1>4, <1>8
<1>12. u \notin crossed' => users'[u].serial = revocations'[u]
  <2> SUFFICES ASSUME u \notin crossed' PROVE users'[u].serial = revocations'[u]
    OBVIOUS
  <2>1. row = users[u] /\ users[u].serial = revocations[u]
    BY <1>2, <1>3, <1>5 DEF KnownAccount
  <2>2. opened # users[u].active <=> ActiveAfter(c) # row.active
    BY <2>1 DEF opened
  <2> QED
    BY <1>7, <1>8, <1>11, <2>1, <2>2 DEF serial
<1>13. \A v \in Names : KnownAccount(v)'
  <2>1. ASSUME NEW v \in Names, v = u PROVE KnownAccount(v)'
    BY <1>2, <1>3, <1>8, <1>12, <2>1 DEF KnownAccount
  <2>2. ASSUME NEW v \in Names, v # u PROVE KnownAccount(v)'
    <3>1. KnownAccount(v)
      BY DEF SessionInv, Sessions
    <3>2. v \in crossed' <=> v \in crossed
      BY <1>1, <2>2
    <3> QED
      BY <1>9, <2>2, <3>1, <3>2 DEF KnownAccount
  <2> QED
    BY <2>1, <2>2
<1>14. \A v : v \notin crossed' => v \notin crossed
  BY <1>1
<1>15. \A t \in tokens' : KnownToken(t, users', crossed')
  BY <1>1, <1>10, <1>14 DEF SessionInv, Sessions, KnownToken
<1>16. ASSUME NEW d \in Calls, d # c PROVE KnownCall(calls[d], users', crossed')
  <2>1. KnownCall(calls[d], users, crossed) /\ (calls[d].pc # "idle" => calls[d].on \in Names)
    BY DEF SessionInv, IInv, Typed, Sessions
  <2>2. ASSUME calls[d].on = u, u \notin crossed'
        PROVE  ~(calls[d].pc \in {"count", "write"} \/ (calls[d].pc = "read" /\ calls[d].by = u))
    BY <1>5, <1>16, <2>2 DEF Beside
  <2> QED
    BY <1>9, <1>10, <1>14, <2>1, <2>2 DEF KnownCall
<1>17. KnownCall(r, users', crossed')
  <2>1. CASE r = NoCall
    BY <2>1, NothingKnown
  <2>2. CASE r # NoCall
    <3>1. r.pc = "mint" /\ r.op = "password" /\ r.on = u
      BY <1>2, <1>6, <2>2 DEF Call, u
    <3> QED
      BY <1>2, <1>3, <1>10, <3>1 DEF KnownCall
  <2> QED
    BY <2>1, <2>2
<1>18. \A d \in Calls : calls'[d] = IF d = c THEN r ELSE calls[d]
  BY <1>4, <1>6
<1>19. \A d \in Calls : KnownCall(calls'[d], users', crossed')
  BY <1>16, <1>17, <1>18
<1> QED
  BY <1>13, <1>15, <1>19 DEF Sessions

LEMMA SessionsNext == SessionInv /\ [AccountsNext]_accountVars => SessionInv'
<1> SUFFICES ASSUME SessionInv, [AccountsNext]_accountVars PROVE SessionInv'
  OBVIOUS
<1>1. IInv'
  BY NextKeeps DEF SessionInv
<1>2. CASE UNCHANGED accountVars
  BY <1>1, <1>2 DEF accountVars, SessionInv, Sessions, KnownAccount
<1> QED
  BY <1>1, <1>2, LogInSessions, MintSessions, AskSessions, ReadSessions, CountSessions, CreateSessions,
     InsertSessions, WriteSessions DEF AccountsNext, SessionInv

\* A token works exactly as long as no password change, reset, closing or
\* reopening was committed since the row it was made of was read (current_user,
\* revoke_sessions), but for accounts on which two requests crossed.
THEOREM SessionsEndInTime == AccountsSpec => []SessionsEnd
<1>1. SessionInv => SessionsEnd
  <2> SUFFICES ASSUME SessionInv, NEW t \in tokens, t.of \notin crossed
               PROVE  Works(t) <=> users[t.of].active /\ t.born = revocations[t.of]
    BY DEF SessionsEnd
  <2>1. KnownToken(t, users, crossed) /\ (t.of \in Names => KnownAccount(t.of))
    BY DEF SessionInv, Sessions
  <2> QED
    BY <2>1 DEF KnownToken, KnownAccount, Works
<1>2. AccountsInit => SessionInv
  BY Initially, SessionsInitially DEF SessionInv
<1> QED
  BY <1>1, <1>2, SessionsNext, PTL DEF AccountsSpec
-----------------------------------------------------------------------------
\* The last admin.

\* A request that closes nothing moves, or one that has counted.
LEMMA OtherAdmins ==
  ASSUME AdminInv, NEW c \in Calls, NEW r, calls' = [calls EXCEPT ![c] = r], duel' = duel,
         ClosesSafely(r, users), \A v \in Names : users'[v] = users[v] \/ (users'[v].there /\ users'[v].active)
  PROVE  Guarded'
<1>1. \A d \in Calls : calls'[d] = IF d = c THEN r ELSE calls[d]
  BY DEF AdminInv, IInv, Typed
<1>2. Admins \subseteq Names
  BY AccountsAssumption
<1>3. \A v \in Admins : users[v].there /\ users[v].active => users'[v].there /\ users'[v].active
  BY <1>2
<1>4. \A k : ClosesSafely(k, users) => ClosesSafely(k, users')
  BY <1>3 DEF ClosesSafely
<1>5. AnAdminIsLeft => AnAdminIsLeft'
  BY <1>3 DEF AnAdminIsLeft
<1> QED
  BY <1>1, <1>4, <1>5 DEF AdminInv, Guarded

\* An admin's account is closed by a request that counted another, and every
\* other request that counted makes it a duel.
LEMMA WriteAdmins == ASSUME AdminInv, NEW c \in Calls, WriteUser(c) PROVE Guarded'
<1> DEFINE u == calls[c].on
           row == calls[c].row
           opened == IF ActiveAfter(c) # row.active THEN ActiveAfter(c) ELSE users[u].active
<1>1. /\ \E serial : users' = [users EXCEPT ![u].serial = serial, ![u].active = opened]
      /\ duel' = (duel \/ (calls[c].op = "close" /\ u \in Admins /\ Closing(c) # {}))
      /\ calls[c].pc = "write" /\ calls[c].op # "create"
  BY DEF WriteUser
<1>2. u \in Names /\ calls[c] \in Call /\ users \in [Names -> User] /\ calls \in [Calls -> Call]
  BY <1>1 DEF AdminInv, IInv, Typed
<1>3. PICK r : calls' = [calls EXCEPT ![c] = r] /\ r.pc # "write"
  <2>1. [calls[c] EXCEPT !.pc = "mint"].pc # "write" /\ NoCall.pc # "write"
    BY <1>2 DEF Call, NoCall
  <2> QED
    BY <2>1 DEF WriteUser, Step, Ends
<1>4. \A d \in Calls : calls'[d] = IF d = c THEN r ELSE calls[d]
  BY <1>2, <1>3
<1>5. Admins \subseteq Names
  BY AccountsAssumption
<1>6. calls[c].op # "close" => ActiveAfter(c) \in {TRUE, row.active}
  BY DEF ActiveAfter
<1>7. calls[c].op = "close" => ActiveAfter(c) = FALSE
  BY DEF ActiveAfter
<1>8. row.active \in BOOLEAN /\ users[u].active \in BOOLEAN
  BY <1>2 DEF Call, User
<1> HIDE DEF u, row, opened
<1>9. users'[u].active = opened /\ users'[u].there = users[u].there
  BY <1>1, <1>2 DEF User
<1>10. \A v \in Names : v # u => users'[v] = users[v]
  BY <1>1, <1>2
<1>11. ClosesSafely(r, users')
  BY <1>3 DEF ClosesSafely
<1> SUFFICES ASSUME ~duel' PROVE AnAdminIsLeft' /\ \A d \in Calls : ClosesSafely(calls'[d], users')
  BY DEF Guarded
<1>12. ~duel /\ AnAdminIsLeft /\ \A d \in Calls : ClosesSafely(calls[d], users)
  BY <1>1 DEF AdminInv, Guarded
\* Nobody open is closed.
<1>13. CASE u \notin Admins \/ opened = users[u].active \/ opened = TRUE
  <2>1. \A v \in Admins : users[v].there /\ users[v].active => users'[v].there /\ users'[v].active
    BY <1>5, <1>9, <1>10, <1>13
  <2>2. \A k : ClosesSafely(k, users) => ClosesSafely(k, users')
    BY <2>1 DEF ClosesSafely
  <2> QED
    BY <1>4, <1>11, <1>12, <2>1, <2>2 DEF AnAdminIsLeft
<1>14. CASE u \in Admins /\ opened # users[u].active /\ opened # TRUE
  <2>1. ActiveAfter(c) # row.active /\ ActiveAfter(c) # TRUE
    BY <1>14 DEF opened
  <2>2. calls[c].op = "close" /\ row.active
    BY <1>6, <1>7, <1>8, <2>1
  <2>3. \E v \in Admins \ {u} : users[v].there /\ users[v].active
    BY <1>1, <1>12, <1>14, <2>2 DEF ClosesSafely, u, row
  <2>4. AnAdminIsLeft'
    BY <1>5, <1>10, <2>3 DEF AnAdminIsLeft
  <2>5. \A d \in Calls \ {c} : ~(calls[d].pc = "write" /\ calls[d].op = "close" /\ calls[d].on \in Admins)
    BY <1>1, <1>14, <2>2 DEF Closing
  <2>6. \A d \in Calls : ClosesSafely(calls'[d], users')
    BY <1>4, <1>11, <2>5 DEF ClosesSafely
  <2> QED
    BY <2>4, <2>6
<1> QED
  BY <1>13, <1>14

LEMMA CountAdminsKeeps == ASSUME AdminInv, NEW c \in Calls, CountAdmins(c) PROVE Guarded'
<1>1. UNCHANGED <<users, duel>> /\ calls[c] \in Call
  BY DEF CountAdmins, AdminInv, IInv, Typed
<1>2. CASE Closable(c)
  <2> DEFINE r == [calls[c] EXCEPT !.pc = "write"]
  <2>1. calls' = [calls EXCEPT ![c] = r]
    BY <1>2 DEF CountAdmins, Step
  <2>2. r.on = calls[c].on /\ r.row = calls[c].row
    BY <1>1 DEF Call
  <2> HIDE DEF r
  <2>3. ClosesSafely(r, users)
    BY <1>2, <2>2 DEF ClosesSafely, Closable
  <2> QED
    BY <1>1, <2>1, <2>3, OtherAdmins
<1>3. CASE ~Closable(c)
  <2>1. calls' = [calls EXCEPT ![c] = NoCall] /\ ClosesSafely(NoCall, users)
    BY <1>3 DEF CountAdmins, Ends, ClosesSafely, NoCall
  <2> QED
    BY <1>1, <2>1, OtherAdmins
<1> QED
  BY <1>2, <1>3

LEMMA AdminsNext == AdminInv /\ [AccountsNext]_accountVars => AdminInv'
<1> SUFFICES ASSUME AdminInv, [AccountsNext]_accountVars PROVE AdminInv'
  OBVIOUS
<1>1. IInv'
  BY NextKeeps DEF AdminInv
<1>2. /\ calls \in [Calls -> Call] /\ users \in [Names -> User]
      /\ \A c \in Calls : calls[c].pc = "read" => calls[c].op # "create"
  BY DEF AdminInv, IInv, Typed, OneCreates, Creating
<1>3. ASSUME NEW c \in Calls, NEW u \in Names, LogIn(c, u) PROVE Guarded'
  <2> DEFINE r == [NoCall EXCEPT !.pc = "mint", !.op = "login", !.on = u, !.row = users[u],
                                 !.born = revocations[u]]
  <2>1. calls' = [calls EXCEPT ![c] = r] /\ UNCHANGED <<users, duel>> /\ r.pc = "mint"
    BY <1>3 DEF LogIn, NoCall
  <2> HIDE DEF r
  <2>2. ClosesSafely(r, users)
    BY <2>1 DEF ClosesSafely
  <2> QED
    BY <2>1, <2>2, OtherAdmins
<1>4. ASSUME NEW c \in Calls, Mint(c) PROVE Guarded'
  <2>1. calls' = [calls EXCEPT ![c] = NoCall] /\ UNCHANGED <<users, duel>> /\ ClosesSafely(NoCall, users)
    BY <1>4 DEF Mint, Ends, ClosesSafely, NoCall
  <2> QED
    BY <2>1, OtherAdmins
<1>5. ASSUME NEW c \in Calls, ReadUser(c) PROVE Guarded'
  <2> DEFINE row == IF calls[c].on = calls[c].by THEN calls[c].row ELSE users[calls[c].on]
             r == [calls[c] EXCEPT !.row = row, !.pc = IF calls[c].op = "close" THEN "count" ELSE "write"]
  <2>1. UNCHANGED <<users, duel>> /\ ClosesSafely(NoCall, users)
    BY <1>5 DEF ReadUser, ClosesSafely, NoCall
  <2>2. calls' = [calls EXCEPT ![c] = r] \/ calls' = [calls EXCEPT ![c] = NoCall]
    BY <1>2, <1>5 DEF ReadUser
  <2>3. r.op = calls[c].op /\ (r.op = "close" => r.pc = "count")
    BY <1>2 DEF Call
  <2> HIDE DEF r
  <2>4. ClosesSafely(r, users)
    BY <2>3 DEF ClosesSafely
  <2> QED
    BY <2>1, <2>2, <2>4, OtherAdmins
<1>6. ASSUME NEW c \in Calls, InsertUser(c) PROVE Guarded'
  <2> DEFINE row == [there |-> TRUE, active |-> TRUE, serial |-> 0]
  <2>1. /\ calls' = [calls EXCEPT ![c] = NoCall] /\ duel' = duel /\ users' = [users EXCEPT ![calls[c].on] = row]
        /\ ClosesSafely(NoCall, users) /\ row.there /\ row.active
    BY <1>6 DEF InsertUser, Ends, ClosesSafely, NoCall
  <2> HIDE DEF row
  <2>2. \A v \in Names : users'[v] = users[v] \/ (users'[v].there /\ users'[v].active)
    BY <1>2, <2>1
  <2> QED
    BY <2>1, <2>2, OtherAdmins
<1>7. ASSUME NEW c \in Calls, NEW by \in Names, NEW on \in Names,
             NEW op \in {"password", "reset", "close", "open"}, AskChange(c, by, on, op)
      PROVE  Guarded'
  <2> DEFINE r == [NoCall EXCEPT !.pc = "read", !.op = op, !.by = by, !.on = on, !.row = users[by]]
  <2>1. calls' = [calls EXCEPT ![c] = r] /\ UNCHANGED <<users, duel>> /\ r.pc = "read"
    BY <1>7 DEF AskChange, NoCall
  <2> HIDE DEF r
  <2>2. ClosesSafely(r, users)
    BY <2>1 DEF ClosesSafely
  <2> QED
    BY <2>1, <2>2, OtherAdmins
<1>8. ASSUME NEW c \in Calls, NEW by \in Names, NEW u \in Names, CreateUser(c, by, u) PROVE Guarded'
  <2> DEFINE r == [NoCall EXCEPT !.pc = "write", !.op = "create", !.on = u]
  <2>1. UNCHANGED <<users, duel>> /\ (UNCHANGED calls \/ calls' = [calls EXCEPT ![c] = r]) /\ r.op = "create"
    BY <1>8 DEF CreateUser, NoCall
  <2> HIDE DEF r
  <2>2. ClosesSafely(r, users)
    BY <2>1 DEF ClosesSafely
  <2>3. CASE UNCHANGED calls
    BY <2>1, <2>3 DEF AdminInv, Guarded, AnAdminIsLeft
  <2> QED
    BY <2>1, <2>2, <2>3, OtherAdmins
<1>9. CASE UNCHANGED accountVars
  <2>1. UNCHANGED <<users, calls, duel>>
    BY <1>9 DEF accountVars
  <2>2. AnAdminIsLeft' <=> AnAdminIsLeft
    BY <2>1 DEF AnAdminIsLeft
  <2> QED
    BY <1>1, <2>1, <2>2 DEF AdminInv, Guarded
<1> QED
  BY <1>1, <1>3, <1>4, <1>5, <1>6, <1>7, <1>8, <1>9, WriteAdmins, CountAdminsKeeps DEF AccountsNext, AdminInv

\* An admin's account stays open (set_active, _other_active_admins), unless two
\* requests closed two admins, each having counted on the other's.
THEOREM AnAdminRemains == AccountsSpec => []AnAdminIsLeftUnlessTwoClose
<1>1. AdminInv => AnAdminIsLeftUnlessTwoClose
  BY DEF AdminInv, Guarded, AnAdminIsLeftUnlessTwoClose
<1>2. AccountsInit => AdminInv
  <2> SUFFICES ASSUME AccountsInit PROVE Guarded
    BY Initially DEF AdminInv
  <2>1. PICK u : u \in Founders /\ u \in Admins /\ u \in Names
    BY AccountsAssumption
  <2>2. users[u].there /\ users[u].active
    BY <2>1 DEF AccountsInit, NoUser
  <2>3. \A c \in Calls : ClosesSafely(calls[c], users)
    BY DEF AccountsInit, ClosesSafely, NoCall
  <2> QED
    BY <2>1, <2>2, <2>3 DEF Guarded, AnAdminIsLeft
<1> QED
  BY <1>1, <1>2, AdminsNext, PTL DEF AccountsSpec

\* What the types rest on: a session is counted by the time it was begun.
BornInTime ==
    /\ \A t \in tokens : t.of \in Names /\ t.serial \in Nat /\ t.born \in 0 .. revocations[t.of]
    /\ \A c \in Calls : calls[c].pc = "mint" /\ calls[c].op = "login" =>
                            calls[c].born \in 0 .. revocations[calls[c].on]

AccountsBounded ==
    /\ namelock \subseteq Calls /\ crossed \subseteq Names /\ duel \in BOOLEAN /\ changes \in 0 .. Changes

LEMMA BornStays ==
  ASSUME IInv, BornInTime, tokens' = tokens, NEW c \in Calls, NEW k \in Call,
         k.pc = "mint" => k.op # "login", calls' = [calls EXCEPT ![c] = k],
         revocations' \in [Names -> Nat], \A u \in Names : revocations'[u] >= revocations[u]
  PROVE  BornInTime'
<1>1. \A d \in Calls : calls'[d] = IF d = c THEN k ELSE calls[d]
  BY DEF IInv, Typed
<1>2. revocations \in [Names -> Nat] /\ \A d \in Calls : calls[d].pc # "idle" => calls[d].on \in Names
  BY DEF IInv, Typed
<1>3. \A u \in Names : \A b \in 0 .. revocations[u] : b \in 0 .. revocations'[u]
  BY <1>2
<1>4. \A t \in tokens' : t.of \in Names /\ t.serial \in Nat /\ t.born \in 0 .. revocations'[t.of]
  BY <1>3 DEF BornInTime
<1>5. \A d \in Calls : calls'[d].pc = "mint" /\ calls'[d].op = "login" =>
                           calls'[d].born \in 0 .. revocations'[calls'[d].on]
  BY <1>1, <1>2, <1>3 DEF BornInTime
<1> QED
  BY <1>4, <1>5 DEF BornInTime

\* No step but the two below issues a token or a number for one.
LEMMA MintBorn == ASSUME IInv, BornInTime, NEW c \in Calls, Mint(c) PROVE BornInTime'
<1> DEFINE u == calls[c].on
           t == IF calls[c].op = "login" THEN Token(u, calls[c].row, calls[c].born)
                ELSE Token(u, users[u], revocations[u])
<1>1. /\ tokens' = tokens \cup {t} /\ calls' = [calls EXCEPT ![c] = NoCall] /\ revocations' = revocations
      /\ calls[c].pc = "mint"
  BY DEF Mint, Ends
<1>2. u \in Names /\ calls[c] \in Call /\ users[u] \in User /\ revocations[u] \in Nat
  BY <1>1 DEF IInv, Typed
<1>3. t.of = u /\ t.serial \in Nat /\ t.born \in 0 .. revocations[u]
  <2>1. CASE calls[c].op = "login"
    BY <1>1, <1>2, <2>1 DEF Token, Call, User, BornInTime
  <2>2. CASE calls[c].op # "login"
    <3>1. t = [of |-> u, serial |-> users[u].serial, born |-> revocations[u]]
      BY <2>2 DEF Token
    <3> QED
      BY <1>2, <3>1 DEF User
  <2> QED
    BY <2>1, <2>2
<1> HIDE DEF t
<1>4. \A d \in Calls : calls'[d] = IF d = c THEN NoCall ELSE calls[d]
  BY <1>1 DEF IInv, Typed
<1> QED
  BY <1>1, <1>2, <1>3, <1>4, Idle DEF BornInTime

LEMMA LogInBorn ==
  ASSUME IInv, BornInTime, NEW c \in Calls, NEW u \in Names, LogIn(c, u)
  PROVE  BornInTime'
<1> DEFINE k == [NoCall EXCEPT !.pc = "mint", !.op = "login", !.on = u, !.row = users[u], !.born = revocations[u]]
<1>1. calls' = [calls EXCEPT ![c] = k] /\ UNCHANGED <<tokens, revocations>>
  BY DEF LogIn
<1>2. k.born = revocations[u] /\ k.on = u
  BY DEF NoCall
<1> HIDE DEF k
<1>3. \A d \in Calls : calls'[d] = IF d = c THEN k ELSE calls[d]
  BY <1>1 DEF IInv, Typed
<1>4. revocations[u] \in 0 .. revocations[u]
  BY DEF IInv, Typed
<1> QED
  BY <1>1, <1>2, <1>3, <1>4 DEF BornInTime

LEMMA CallBorn ==
  ASSUME IInv, BornInTime, NEW c \in Calls,
         \/ ReadUser(c) \/ CountAdmins(c) \/ WriteUser(c) \/ InsertUser(c)
         \/ \E by, on \in Names, op \in {"password", "reset", "close", "open"} : AskChange(c, by, on, op)
         \/ \E by, u \in Names : CreateUser(c, by, u)
  PROVE  BornInTime'
<1>1. tokens' = tokens
  BY DEF ReadUser, CountAdmins, WriteUser, InsertUser, AskChange, CreateUser
<1>2. revocations' \in [Names -> Nat] /\ \A u \in Names : revocations'[u] >= revocations[u]
  <2>0. revocations \in [Names -> Nat]
    BY DEF IInv, Typed
  <2>1. CASE revocations' = revocations
    BY <2>0, <2>1
  <2>2. CASE revocations' # revocations
    <3>1. WriteUser(c)
      BY <2>2 DEF ReadUser, CountAdmins, InsertUser, AskChange, CreateUser
    <3>2. calls[c].on \in Names
      BY <3>1 DEF IInv, Typed, WriteUser
    <3>3. PICK n \in {0, 1} :
             revocations' = [revocations EXCEPT ![calls[c].on] = @ + n]
      <4>1. revocations' = [revocations EXCEPT ![calls[c].on] = @ + 1]
        BY <2>2, <3>1, <3>2, <2>0 DEF WriteUser
      <4> QED
        BY <4>1
    <3> QED
      BY <2>0, <3>2, <3>3
  <2> QED
    BY <2>1, <2>2
<1>3. calls \in [Calls -> Call]
  BY DEF IInv, Typed
<1>4. (\E k \in Call : /\ k.pc = "mint" => k.op # "login"
                       /\ calls' = [calls EXCEPT ![c] = k])
  <2> DEFINE Fine(k) == k \in Call /\ (k.pc = "mint" => k.op # "login") /\ calls' = [calls EXCEPT ![c] = k]
  <2>0. NoCall \in Call /\ NoCall.pc = "idle" /\ calls[c] \in Call
    BY <1>3, Idle
  <2>1. calls' = [calls EXCEPT ![c] = NoCall] => Fine(NoCall)
    BY <2>0
  <2>2. calls' = calls => (calls[c].pc # "mint" => Fine(calls[c]))
    BY <1>3, <2>0
  <2>3. CASE \E by, on \in Names, op \in {"password", "reset", "close", "open"} : AskChange(c, by, on, op)
    <3>1. PICK by \in Names, on \in Names, op \in {"password", "reset", "close", "open"} :
              calls' = [calls EXCEPT ![c] = [NoCall EXCEPT !.pc = "read", !.op = op, !.by = by, !.on = on,
                                                           !.row = users[by]]]
      BY <2>3 DEF AskChange
    <3>2. users[by] \in User
      BY DEF IInv, Typed
    <3>3. [NoCall EXCEPT !.pc = "read", !.op = op, !.by = by, !.on = on, !.row = users[by]] \in Call
      BY <2>0, <3>2 DEF Call, NoCall
    <3>4. Fine([NoCall EXCEPT !.pc = "read", !.op = op, !.by = by, !.on = on, !.row = users[by]])
      BY <3>1, <3>3 DEF NoCall
    <3> QED
      BY <3>4
  <2>4. CASE \E by, u \in Names : CreateUser(c, by, u)
    <3>1. PICK by \in Names, u \in Names : CreateUser(c, by, u)
      BY <2>4
    <3>2. CASE calls' = calls
      BY <2>2, <3>1, <3>2 DEF CreateUser
    <3>3. CASE calls' # calls
      <4> DEFINE k == [NoCall EXCEPT !.pc = "write", !.op = "create", !.on = u]
      <4>1. calls' = [calls EXCEPT ![c] = k]
        BY <3>1, <3>3 DEF CreateUser
      <4>2. k \in Call /\ k.pc = "write"
        BY <2>0 DEF Call, NoCall
      <4> HIDE DEF k
      <4> QED
        BY <4>1, <4>2
    <3> QED
      BY <3>2, <3>3
  <2>5. CASE ReadUser(c)
    <3> DEFINE row == IF calls[c].on = calls[c].by THEN calls[c].row ELSE users[calls[c].on]
               k == [calls[c] EXCEPT !.row = row, !.pc = IF calls[c].op = "close" THEN "count" ELSE "write"]
    <3>1. CASE calls' = [calls EXCEPT ![c] = NoCall]
      BY <2>1, <3>1
    <3>2. CASE calls' # [calls EXCEPT ![c] = NoCall]
      <4>1. calls' = [calls EXCEPT ![c] = k] /\ calls[c].on \in Names
        BY <2>5, <3>2 DEF ReadUser, IInv, Typed
      <4>2. row \in User
        BY <4>1, <2>0 DEF IInv, Typed, Call
      <4> HIDE DEF row
      <4>3. k \in Call /\ k.pc # "mint"
        BY <2>0, <4>2 DEF Call
      <4> HIDE DEF k
      <4> QED
        BY <4>1, <4>3
    <3> QED
      BY <3>1, <3>2
  <2>6. CASE CountAdmins(c)
    <3> DEFINE k == [calls[c] EXCEPT !.pc = "write"]
    <3>1. calls' = [calls EXCEPT ![c] = k] \/ calls' = [calls EXCEPT ![c] = NoCall]
      BY <2>6 DEF CountAdmins, Step, Ends
    <3>2. k \in Call /\ k.pc = "write"
      BY <2>0 DEF Call
    <3> HIDE DEF k
    <3> QED
      BY <2>1, <3>1, <3>2
  <2>7. CASE WriteUser(c)
    <3> DEFINE k == [calls[c] EXCEPT !.pc = "mint"]
    <3>1. (calls[c].op = "password" /\ calls' = [calls EXCEPT ![c] = k]) \/ calls' = [calls EXCEPT ![c] = NoCall]
      BY <2>7 DEF WriteUser, Step, Ends
    <3>2. k \in Call /\ k.op = calls[c].op
      BY <2>0 DEF Call
    <3> HIDE DEF k
    <3> QED
      BY <2>1, <3>1, <3>2
  <2>8. CASE InsertUser(c)
    BY <2>1, <2>8 DEF InsertUser, Ends
  <2> QED
    BY <2>3, <2>4, <2>5, <2>6, <2>7, <2>8
<1> QED
  BY <1>1, <1>2, <1>4, BornStays

LEMMA BoundedKeeps == IInv /\ AccountsBounded /\ [AccountsNext]_accountVars => AccountsBounded'
<1> SUFFICES ASSUME IInv, AccountsBounded, [AccountsNext]_accountVars PROVE AccountsBounded'
  OBVIOUS
<1>1. CASE UNCHANGED <<namelock, crossed, duel, changes>>
  BY <1>1 DEF AccountsBounded
<1>2. ASSUME NEW c \in Calls, WriteUser(c) PROVE AccountsBounded'
  <2>1. calls[c].on \in Names /\ duel \in BOOLEAN
    BY <1>2 DEF IInv, Typed, WriteUser, AccountsBounded
  <2>2. crossed' \subseteq Names /\ UNCHANGED <<namelock, changes>>
    BY <1>2, <2>1 DEF WriteUser, AccountsBounded
  <2>3. duel' \in BOOLEAN
    BY <1>2, <2>1 DEF WriteUser
  <2> QED
    BY <2>2, <2>3 DEF AccountsBounded
<1>3. ASSUME NEW c \in Calls, InsertUser(c) PROVE AccountsBounded'
  BY <1>3 DEF InsertUser, AccountsBounded
<1>4. ASSUME changes < Changes, changes' = changes + 1 PROVE changes' \in 0 .. Changes
  BY <1>4, AccountsAssumption DEF AccountsBounded
<1>5. ASSUME NEW c \in Calls, NEW by \in Names, NEW u \in Names, CreateUser(c, by, u) PROVE AccountsBounded'
  <2>1. namelock' \subseteq Calls
    BY <1>5 DEF CreateUser, AccountsBounded
  <2> QED
    BY <1>4, <1>5, <2>1 DEF CreateUser, AccountsBounded
<1>6. ASSUME NEW c \in Calls, NEW by \in Names, NEW on \in Names,
             NEW op \in {"password", "reset", "close", "open"}, AskChange(c, by, on, op)
      PROVE  AccountsBounded'
  BY <1>4, <1>6 DEF AskChange, AccountsBounded
<1>7. ASSUME NEW c \in Calls, Mint(c) \/ ReadUser(c) \/ CountAdmins(c) PROVE AccountsBounded'
  BY <1>1, <1>7 DEF Mint, ReadUser, CountAdmins
<1>8. ASSUME NEW c \in Calls, NEW u \in Names, LogIn(c, u) PROVE AccountsBounded'
  BY <1>1, <1>8 DEF LogIn
<1>9. CASE UNCHANGED accountVars
  BY <1>1, <1>9 DEF accountVars
<1> QED
  BY <1>2, <1>3, <1>5, <1>6, <1>7, <1>8, <1>9 DEF AccountsNext

\* The variables of Accounts hold values of their types; no session was begun
\* after more revocations than there have been (login, change_password).
THEOREM AccountsTypeCorrect == AccountsSpec => []AccountsTypeOK
<1>1. AccountsInit => BornInTime /\ AccountsBounded
  <2> SUFFICES ASSUME AccountsInit PROVE BornInTime /\ AccountsBounded
    OBVIOUS
  <2>1. tokens = {} /\ \A c \in Calls : calls[c].pc # "mint"
    BY Idle DEF AccountsInit
  <2>2. BornInTime
    BY <2>1 DEF BornInTime
  <2>3. 0 \in 0 .. Changes
    BY AccountsAssumption
  <2>4. AccountsBounded
    BY <2>3 DEF AccountsInit, AccountsBounded
  <2> QED
    BY <2>2, <2>4
<1>2. IInv /\ BornInTime /\ [AccountsNext]_accountVars => BornInTime'
  <2>1. BornInTime /\ UNCHANGED accountVars => BornInTime'
    BY DEF accountVars, BornInTime
  <2> QED
    BY <2>1, MintBorn, LogInBorn, CallBorn DEF AccountsNext
<1>3. IInv /\ BornInTime /\ AccountsBounded => AccountsTypeOK
  BY DEF IInv, Typed, Call, BornInTime, AccountsBounded, AccountsTypeOK
<1> QED
  BY <1>1, <1>2, <1>3, Initially, NextKeeps, BoundedKeeps, PTL DEF AccountsSpec
-----------------------------------------------------------------------------
\* What one account may have and spend.

WorkRow == [key : Keys \cup {NoKey}, state : {"none", "queued", "running", "ended"}, tries : 0 .. max_attempts]
LaneRow == [job : Jobs \cup {0}, token : Nat, pc : {"idle", "live", "flush"}, meter : {0, 1}]
ClickRow == [pc : {"idle", "wait", "count", "spend", "enqueue", "found", "create"}, key : Keys \cup {NoKey},
             free : BOOLEAN]

WorksTyped(ws) ==
    /\ ws \in [Jobs -> WorkRow]
    /\ \A n \in Jobs : ws[n].state = "queued" => ws[n].tries < max_attempts

LanesTyped(at, ws) ==
    /\ at \in [Lanes -> LaneRow]
    /\ \A l \in Lanes : IF at[l].pc = "idle" THEN at[l].meter = 0
                        ELSE at[l].job \in Jobs /\ ws[at[l].job].state # "none"

ProjectsTyped(ps) == ps \in [Projects -> {"none", "new", "old", "deleted"}]

SpendTyped ==
    /\ WorksTyped(works) /\ LanesTyped(attempts, works) /\ ProjectsTyped(projects)
    /\ clicks \in [Clicks -> ClickRow]
    /\ ledger \in Nat /\ billed \in Int /\ lost \in Nat /\ unchecked \in Nat

\* Whoever counted holds the account.
CountsAlone(cs, holder) ==
    \A c \in Clicks : cs[c].pc \in {"count", "spend", "enqueue", "create"} => holder = c

LiveJobs(ws) == {n \in Jobs : ws[n].state \in {"queued", "running"}}
LivePaid(ws) == {n \in LiveJobs(ws) : ws[n].key.kind \in PaidKinds}
Present(ps) == {p \in Projects : ps[p] \in {"new", "old"}}
Recent(ps) == {p \in Projects : ps[p] = "new"}

\* A counted click has a place left for the job, or the project, it inserts.
HasPlace(k, ws, un) ==
    k.pc \in {"spend", "enqueue"} /\ ~k.free =>
        /\ Cardinality(LiveJobs(ws)) < quota_active_jobs + un
        /\ k.key.kind \in PaidKinds => Cardinality(LivePaid(ws)) < quota_active_paid_jobs + un

HasRoom(k, ps) ==
    k.pc = "create" => /\ Cardinality(Present(ps)) < quota_projects_total
                       /\ Cardinality(Recent(ps)) < quota_projects_per_hour

JobsFit(ws, un) ==
    /\ Cardinality(LiveJobs(ws)) <= quota_active_jobs + un
    /\ Cardinality(LivePaid(ws)) <= quota_active_paid_jobs + un

ProjectsFit(ps) ==
    /\ Cardinality(Present(ps)) <= quota_projects_total
    /\ Cardinality(Recent(ps)) <= quota_projects_per_hour

PlacesInv ==
    /\ SpendTyped /\ CountsAlone(clicks, account)
    /\ \A c \in Clicks : HasPlace(clicks[c], works, unchecked) /\ HasRoom(clicks[c], projects)
    /\ JobsFit(works, unchecked) /\ ProjectsFit(projects)

\* The attempts that have bought what is not written down, those that have or
\* may buy still, and those that live jobs may have yet, each with its number.
Unflushed(at) == {l \in Lanes : at[l].meter = 1}
OnTheWay(at, ws) == {l \in Lanes : at[l].meter = 1 \/ (at[l].pc = "live" /\ ws[at[l].job].key.kind \in Billing)}
ToCome(ws) == {w \in Jobs \X (1 .. max_attempts) :
                  /\ ws[w[1]].state \in {"queued", "running"} /\ ws[w[1]].key.kind \in Billing
                  /\ ws[w[1]].tries < w[2]}

Spent(led, at, ws) == led + Cardinality(OnTheWay(at, ws)) + Cardinality(ToCome(ws))
Allowed(un) == quota_monthly_usd - 1 + max_attempts * (quota_active_jobs + un) + Cardinality(Lanes)

\* The click may insert a job that buys.
MayBuy(k) == k.pc = "enqueue" /\ ~k.free /\ k.key.kind \in Billing

\* What may be bought yet was allowed when the budget was last read.
BudgetInv ==
    /\ PlacesInv
    /\ billed - lost = ledger + Cardinality(Unflushed(attempts))
    /\ Spent(ledger, attempts, works) <= Allowed(unchecked)
    /\ \A c \in Clicks : MayBuy(clicks[c]) => Spent(ledger, attempts, works) + max_attempts <= Allowed(unchecked)
-----------------------------------------------------------------------------
LEMMA Limits ==
  /\ quota_active_jobs \in Nat \ {0} /\ quota_active_paid_jobs \in Nat \ {0} /\ quota_monthly_usd \in Nat \ {0}
  /\ quota_projects_per_hour \in Nat \ {0} /\ quota_projects_total \in Nat \ {0}
  /\ max_attempts \in Nat \ {0} /\ 0 \notin Clicks /\ 0 \notin Jobs
  /\ IsFiniteSet(Projects) /\ IsFiniteSet(Lanes) /\ IsFiniteSet(Jobs)
BY SpendingAssumption

LEMMA SpendSetsAreFinite ==
  /\ \A ws : /\ IsFiniteSet(LiveJobs(ws)) /\ Cardinality(LiveJobs(ws)) \in Nat
             /\ IsFiniteSet(LivePaid(ws)) /\ Cardinality(LivePaid(ws)) \in Nat
             /\ IsFiniteSet(ToCome(ws)) /\ Cardinality(ToCome(ws)) \in Nat
  /\ \A ps : /\ IsFiniteSet(Present(ps)) /\ Cardinality(Present(ps)) \in Nat
             /\ IsFiniteSet(Recent(ps)) /\ Cardinality(Recent(ps)) \in Nat
  /\ \A at : IsFiniteSet(Unflushed(at)) /\ Cardinality(Unflushed(at)) \in Nat
  /\ \A at, ws : /\ IsFiniteSet(OnTheWay(at, ws)) /\ Cardinality(OnTheWay(at, ws)) \in Nat
                 /\ Cardinality(OnTheWay(at, ws)) <= Cardinality(Lanes)
  /\ Cardinality(Lanes) \in Nat
<1>1. \A ws : LiveJobs(ws) \subseteq Jobs /\ LivePaid(ws) \subseteq Jobs
  BY DEF LiveJobs, LivePaid
<1>2. \A ps : Present(ps) \subseteq Projects /\ Recent(ps) \subseteq Projects
  BY DEF Present, Recent
<1>3. \A at, ws : Unflushed(at) \subseteq Lanes /\ OnTheWay(at, ws) \subseteq Lanes
  BY DEF Unflushed, OnTheWay
<1>4. IsFiniteSet(1 .. max_attempts)
  BY Counting, Limits
<1>5. IsFiniteSet(Jobs \X (1 .. max_attempts))
  BY <1>4, FS_Product, Limits
<1>6. \A ws : ToCome(ws) \subseteq Jobs \X (1 .. max_attempts)
  BY DEF ToCome
<1>7. \A S, T : IsFiniteSet(T) /\ S \subseteq T =>
          IsFiniteSet(S) /\ Cardinality(S) \in Nat /\ Cardinality(S) <= Cardinality(T)
  BY FS_Subset, FS_CardinalityType
<1>8. Cardinality(Lanes) \in Nat
  BY FS_CardinalityType, Limits
<1>9. \A ws : /\ IsFiniteSet(LiveJobs(ws)) /\ Cardinality(LiveJobs(ws)) \in Nat
              /\ IsFiniteSet(LivePaid(ws)) /\ Cardinality(LivePaid(ws)) \in Nat
  BY <1>1, <1>7, Limits
<1>10. \A ws : IsFiniteSet(ToCome(ws)) /\ Cardinality(ToCome(ws)) \in Nat
  BY <1>5, <1>6, <1>7
<1>11. \A ps : /\ IsFiniteSet(Present(ps)) /\ Cardinality(Present(ps)) \in Nat
               /\ IsFiniteSet(Recent(ps)) /\ Cardinality(Recent(ps)) \in Nat
  BY <1>2, <1>7, Limits
<1>12. \A at, ws : /\ IsFiniteSet(OnTheWay(at, ws)) /\ Cardinality(OnTheWay(at, ws)) \in Nat
                   /\ Cardinality(OnTheWay(at, ws)) <= Cardinality(Lanes)
                   /\ IsFiniteSet(Unflushed(at)) /\ Cardinality(Unflushed(at)) \in Nat
  BY <1>3, <1>7, Limits
<1> QED
  BY <1>8, <1>9, <1>10, <1>11, <1>12

\* A part has no more elements than the whole, and one element counts once.
LEMMA Smaller ==
  ASSUME NEW S, NEW T, IsFiniteSet(T), S \subseteq T
  PROVE  Cardinality(S) <= Cardinality(T) /\ Cardinality(S) \in Nat /\ Cardinality(T) \in Nat
BY FS_Subset, FS_CardinalityType

LEMMA OneAtMost ==
  ASSUME NEW S, NEW T, NEW x, IsFiniteSet(T), S \subseteq T \cup {x}
  PROVE  Cardinality(S) <= Cardinality(T) + 1 /\ Cardinality(S) \in Nat /\ Cardinality(T) \in Nat
<1>1. IsFiniteSet(T \cup {x}) /\ Cardinality(T \cup {x}) <= Cardinality(T) + 1 /\ Cardinality(T) \in Nat
  BY FS_AddElement, FS_CardinalityType
<1> QED
  BY <1>1, Smaller
-----------------------------------------------------------------------------
\* The places.

\* No job comes to life and no project is created.
LEMMA NoMore ==
  ASSUME PlacesInv, LiveJobs(works') \subseteq LiveJobs(works), LivePaid(works') \subseteq LivePaid(works),
         Present(projects') \subseteq Present(projects), Recent(projects') \subseteq Recent(projects),
         unchecked' = unchecked
  PROVE  /\ JobsFit(works', unchecked') /\ ProjectsFit(projects')
         /\ \A k : HasPlace(k, works, unchecked) => HasPlace(k, works', unchecked')
         /\ \A k : HasRoom(k, projects) => HasRoom(k, projects')
<1>1. /\ Cardinality(LiveJobs(works')) <= Cardinality(LiveJobs(works))
      /\ Cardinality(LivePaid(works')) <= Cardinality(LivePaid(works))
      /\ Cardinality(Present(projects')) <= Cardinality(Present(projects))
      /\ Cardinality(Recent(projects')) <= Cardinality(Recent(projects))
  BY Smaller, SpendSetsAreFinite
<1>2. unchecked \in Nat
  BY DEF PlacesInv, SpendTyped
<1> HIDE DEF LiveJobs
<1>3. JobsFit(works', unchecked') /\ ProjectsFit(projects')
  BY <1>1, <1>2, Limits, SpendSetsAreFinite DEF PlacesInv, JobsFit, ProjectsFit
<1>4. \A k : HasPlace(k, works, unchecked) => HasPlace(k, works', unchecked')
  BY <1>1, <1>2, Limits, SpendSetsAreFinite DEF HasPlace
<1>5. \A k : HasRoom(k, projects) => HasRoom(k, projects')
  BY <1>1, Limits, SpendSetsAreFinite DEF HasRoom
<1> QED
  BY <1>3, <1>4, <1>5

\* A job comes to life that was not counted.
LEMMA OneUncounted ==
  ASSUME PlacesInv, NEW n \in Jobs, LiveJobs(works') \subseteq LiveJobs(works) \cup {n},
         LivePaid(works') \subseteq LivePaid(works) \cup {n}, unchecked' = unchecked + 1
  PROVE  /\ JobsFit(works', unchecked')
         /\ \A k : HasPlace(k, works, unchecked) => HasPlace(k, works', unchecked')
<1>1. /\ Cardinality(LiveJobs(works')) <= Cardinality(LiveJobs(works)) + 1
      /\ Cardinality(LivePaid(works')) <= Cardinality(LivePaid(works)) + 1
  BY OneAtMost, SpendSetsAreFinite
<1>2. unchecked \in Nat
  BY DEF PlacesInv, SpendTyped
<1>3. JobsFit(works', unchecked')
  BY <1>1, <1>2, Limits, SpendSetsAreFinite DEF PlacesInv, JobsFit
<1>4. \A k : HasPlace(k, works, unchecked) => HasPlace(k, works', unchecked')
  BY <1>1, <1>2, Limits, SpendSetsAreFinite DEF HasPlace
<1> QED
  BY <1>3, <1>4

\* A click moves or leaves, and nothing else does but the lock.
LEMMA ClickMoves ==
  ASSUME PlacesInv, NEW c \in Clicks, NEW k \in ClickRow, clicks' = [clicks EXCEPT ![c] = k],
         UNCHANGED <<works, attempts, projects, ledger, billed, lost, unchecked>>,
         HasPlace(k, works, unchecked), HasRoom(k, projects),
         CountsAlone(clicks', account')
  PROVE  PlacesInv'
<1>1. \A d \in Clicks : clicks'[d] = IF d = c THEN k ELSE clicks[d]
  BY DEF PlacesInv, SpendTyped
<1>2. SpendTyped'
  BY DEF PlacesInv, SpendTyped
<1>3. \A d \in Clicks : HasPlace(clicks'[d], works', unchecked') /\ HasRoom(clicks'[d], projects')
  BY <1>1 DEF PlacesInv
<1>4. JobsFit(works', unchecked') /\ ProjectsFit(projects')
  BY DEF PlacesInv
<1> QED
  BY <1>2, <1>3, <1>4 DEF PlacesInv

\* Who has the account when a click moves.
LEMMA LockMoves ==
  ASSUME PlacesInv, NEW c \in Clicks, NEW k, clicks' = [clicks EXCEPT ![c] = k],
         \/ /\ account' = account
            /\ k.pc \in {"count", "spend", "enqueue", "create"} => account = c
         \/ account = 0 /\ account' = c
         \/ account = c /\ account' = 0 /\ k.pc = "idle"
         \/ account = 0 /\ account' = 0 /\ k.pc = "idle"
  PROVE  CountsAlone(clicks', account')
<1>1. \A d \in Clicks : clicks'[d] = IF d = c THEN k ELSE clicks[d]
  BY DEF PlacesInv, SpendTyped
<1> DEFINE Counts(pc) == pc \in {"count", "spend", "enqueue", "create"}
<1>2. \A d \in Clicks : Counts(clicks[d].pc) => account = d
  BY DEF PlacesInv, CountsAlone
<1>3. ~Counts("idle") /\ \A d \in Clicks : d # 0
  BY Limits
<1> SUFFICES ASSUME NEW d \in Clicks, Counts(clicks'[d].pc) PROVE account' = d
  BY DEF CountsAlone
<1>4. k.pc \in {"count", "spend", "enqueue", "create"} <=> Counts(k.pc)
  OBVIOUS
<1> HIDE DEF Counts
<1>5. CASE d = c
  <2>1. Counts(k.pc)
    BY <1>1, <1>5
  <2> QED
    BY <1>3, <1>4, <1>5, <2>1
<1>6. CASE d # c
  <2>1. account = d
    BY <1>1, <1>2, <1>6
  <2> QED
    BY <1>3, <1>6, <2>1
<1> QED
  BY <1>5, <1>6

LEMMA NoClickIsFine ==
  /\ NoClick \in ClickRow /\ NoClick.pc = "idle" /\ ~MayBuy(NoClick)
  /\ \A ws, un : HasPlace(NoClick, ws, un)
  /\ \A ps : HasRoom(NoClick, ps)
BY DEF NoClick, ClickRow, HasPlace, HasRoom, MayBuy

LEMMA ActiveIsLive ==
  /\ active = LiveJobs(works) /\ active_paid = LivePaid(works)
  /\ {p \in Projects : Exists(p)} = Present(projects)
  /\ {p \in Projects : projects[p] = "new"} = Recent(projects)
BY DEF active, active_paid, Live, LiveJobs, LivePaid, Exists, Present, Recent

LEMMA ClicksKeepPlaces ==
  ASSUME PlacesInv, NEW c \in Clicks,
         Ask(c) \/ Admit(c) \/ Count(c) \/ Budgeted(c) \/ AskProject(c) \/ AdmitProject(c)
  PROVE  PlacesInv'
<1>1. clicks[c] \in ClickRow /\ unchecked \in Nat
  BY DEF PlacesInv, SpendTyped
<1>2. UNCHANGED <<works, attempts, projects, ledger, billed, lost, unchecked>>
  BY DEF Ask, Admit, Count, Budgeted, AskProject, AdmitProject
<1>3. CASE Ask(c)
  <2>1. PICK key \in Keys : clicks' = [clicks EXCEPT ![c] = [pc |-> "wait", key |-> key, free |-> FALSE]]
    BY <1>3 DEF Ask
  <2> DEFINE k == [pc |-> "wait", key |-> key, free |-> FALSE]
  <2>2. k \in ClickRow /\ HasPlace(k, works, unchecked) /\ HasRoom(k, projects) /\ k.pc = "wait"
    BY DEF ClickRow, HasPlace, HasRoom
  <2>3. account' = account /\ clicks' = [clicks EXCEPT ![c] = k]
    BY <1>3, <2>1 DEF Ask
  <2> HIDE DEF k
  <2>4. CountsAlone(clicks', account')
    BY <2>2, <2>3, LockMoves
  <2> QED
    BY <1>2, <2>2, <2>3, <2>4, ClickMoves
<1>4. CASE Admit(c)
  <2> DEFINE found == active_with_key(clicks[c].key) # {}
             k == [clicks[c] EXCEPT !.free = found, !.pc = IF found THEN "enqueue" ELSE "count"]
  <2>1. clicks' = [clicks EXCEPT ![c] = k] /\ account = 0 /\ account' = c
    BY <1>1, <1>4 DEF Admit, ClickRow
  <2>2. k \in ClickRow /\ (k.free => k.pc = "enqueue") /\ (~k.free => k.pc = "count") /\ k.pc \in {"enqueue", "count"}
    BY <1>1 DEF ClickRow
  <2> HIDE DEF k
  <2>3. HasPlace(k, works, unchecked) /\ HasRoom(k, projects)
    BY <2>2 DEF HasPlace, HasRoom
  <2>4. CountsAlone(clicks', account')
    BY <2>1, LockMoves
  <2> QED
    BY <1>2, <2>1, <2>2, <2>3, <2>4, ClickMoves
<1>5. CASE Count(c) \/ Budgeted(c)
  <2>1. account = c
    BY <1>5 DEF Count, Budgeted, PlacesInv, CountsAlone
  <2>2. CASE Leaves(c)
    <3>1. clicks' = [clicks EXCEPT ![c] = NoClick] /\ account' = 0
      BY <2>2 DEF Leaves
    <3>2. CountsAlone(clicks', account')
      BY <2>1, <3>1, NoClickIsFine, LockMoves
    <3> QED
      BY <1>2, <3>1, <3>2, NoClickIsFine, ClickMoves
  <2>3. ASSUME NEW pc \in {"spend", "enqueue"}, Goes(c, pc), account' = account,
               HasPlace([clicks[c] EXCEPT !.pc = pc], works, unchecked)
        PROVE  PlacesInv'
    <3> DEFINE k == [clicks[c] EXCEPT !.pc = pc]
    <3>1. clicks' = [clicks EXCEPT ![c] = k]
      BY <2>3 DEF Goes
    <3>2. k \in ClickRow /\ k.pc = pc /\ HasPlace(k, works, unchecked)
      BY <1>1, <2>3 DEF ClickRow
    <3> HIDE DEF k
    <3>3. HasRoom(k, projects)
      BY <3>2 DEF HasRoom
    <3>4. CountsAlone(clicks', account')
      BY <2>1, <2>3, <3>1, LockMoves
    <3> QED
      BY <1>2, <3>1, <3>2, <3>3, <3>4, ClickMoves
  <2>4. CASE Count(c) /\ ~Leaves(c)
    <3>1. ~Refused(clicks[c].key.kind)
      BY <2>4 DEF Count
    <3>2. PICK pc \in {"spend", "enqueue"} : Goes(c, pc) /\ account' = account
      BY <2>4 DEF Count
    <3>3. [clicks[c] EXCEPT !.pc = pc].key = clicks[c].key
      BY <1>1 DEF ClickRow
    <3>4. /\ Cardinality(LiveJobs(works)) < quota_active_jobs + unchecked
          /\ clicks[c].key.kind \in PaidKinds => Cardinality(LivePaid(works)) < quota_active_paid_jobs + unchecked
      BY <1>1, <3>1, ActiveIsLive, Limits, SpendSetsAreFinite DEF Refused
    <3>5. HasPlace([clicks[c] EXCEPT !.pc = pc], works, unchecked)
      BY <3>3, <3>4 DEF HasPlace
    <3> QED
      BY <2>3, <3>2, <3>5
  <2>5. CASE Budgeted(c) /\ ~Leaves(c)
    <3>1. Goes(c, "enqueue") /\ account' = account /\ clicks[c].pc = "spend"
      BY <2>5 DEF Budgeted
    <3>2. [clicks[c] EXCEPT !.pc = "enqueue"].key = clicks[c].key /\ [clicks[c] EXCEPT !.pc = "enqueue"].free = clicks[c].free
      BY <1>1 DEF ClickRow
    <3>3. HasPlace(clicks[c], works, unchecked)
      BY DEF PlacesInv
    <3>4. HasPlace([clicks[c] EXCEPT !.pc = "enqueue"], works, unchecked)
      BY <3>1, <3>2, <3>3 DEF HasPlace
    <3> QED
      BY <2>3, <3>1, <3>4
  <2> QED
    BY <1>5, <2>2, <2>4, <2>5
<1>6. CASE AskProject(c)
  <2> DEFINE k == [clicks[c] EXCEPT !.pc = "found"]
  <2>1. clicks' = [clicks EXCEPT ![c] = k] /\ account' = account
    BY <1>6 DEF AskProject, Goes
  <2>2. k \in ClickRow /\ k.pc = "found"
    BY <1>1 DEF ClickRow
  <2> HIDE DEF k
  <2>3. HasPlace(k, works, unchecked) /\ HasRoom(k, projects)
    BY <2>2 DEF HasPlace, HasRoom
  <2>4. CountsAlone(clicks', account')
    BY <2>1, <2>2, LockMoves
  <2> QED
    BY <1>2, <2>1, <2>2, <2>3, <2>4, ClickMoves
<1>7. CASE AdmitProject(c)
  <2>1. account = 0
    BY <1>7 DEF AdmitProject
  <2>2. CASE Leaves(c)
    <3>1. clicks' = [clicks EXCEPT ![c] = NoClick] /\ account' = 0
      BY <2>2 DEF Leaves
    <3>2. CountsAlone(clicks', account')
      BY <2>1, <3>1, NoClickIsFine, LockMoves
    <3> QED
      BY <1>2, <3>1, <3>2, NoClickIsFine, ClickMoves
  <2>3. CASE ~Leaves(c)
    <3> DEFINE k == [clicks[c] EXCEPT !.pc = "create"]
    <3>1. /\ clicks' = [clicks EXCEPT ![c] = k] /\ account' = c
          /\ ~(Cardinality(Recent(projects)) >= quota_projects_per_hour)
          /\ ~(Cardinality(Present(projects)) >= quota_projects_total)
      BY <1>7, <2>3, ActiveIsLive DEF AdmitProject, Goes
    <3>2. k \in ClickRow /\ k.pc = "create"
      BY <1>1 DEF ClickRow
    <3> HIDE DEF k
    <3>3. HasPlace(k, works, unchecked) /\ HasRoom(k, projects)
      BY <3>1, <3>2, Limits, SpendSetsAreFinite DEF HasPlace, HasRoom
    <3>4. CountsAlone(clicks', account')
      BY <2>1, <3>1, LockMoves
    <3> QED
      BY <1>2, <3>1, <3>2, <3>3, <3>4, ClickMoves
  <2> QED
    BY <2>2, <2>3
<1> QED
  BY <1>3, <1>4, <1>5, <1>6, <1>7

\* The row of one job changes, and no row disappears.
LEMMA RowChanges ==
  ASSUME WorksTyped(works), NEW n \in Jobs, NEW w \in WorkRow, works' = [works EXCEPT ![n] = w],
         w.state = "queued" => w.tries < max_attempts, works[n].state # "none" => w.state # "none"
  PROVE  /\ WorksTyped(works') /\ works'[n] = w /\ \A m \in Jobs : m # n => works'[m] = works[m]
         /\ \A at : LanesTyped(at, works) => LanesTyped(at, works')
         /\ LiveJobs(works') \subseteq LiveJobs(works) \cup {n}
         /\ LivePaid(works') \subseteq LivePaid(works) \cup {n}
         /\ w.state \in {"queued", "running"} /\ works[n].state \in {"queued", "running"} /\ w.key = works[n].key
                => LiveJobs(works') = LiveJobs(works) /\ LivePaid(works') = LivePaid(works)
         /\ w.state \notin {"queued", "running"}
                => LiveJobs(works') \subseteq LiveJobs(works) /\ LivePaid(works') \subseteq LivePaid(works)
<1>1. works'[n] = w /\ \A m \in Jobs : m # n => works'[m] = works[m]
  BY DEF WorksTyped
<1>2. WorksTyped(works')
  BY <1>1 DEF WorksTyped
<1>3. \A at : LanesTyped(at, works) => LanesTyped(at, works')
  BY <1>1 DEF LanesTyped
<1>4. /\ LiveJobs(works') \subseteq LiveJobs(works) \cup {n}
      /\ LivePaid(works') \subseteq LivePaid(works) \cup {n}
  BY <1>1 DEF LiveJobs, LivePaid
<1>5. ASSUME w.state \in {"queued", "running"}, works[n].state \in {"queued", "running"}, w.key = works[n].key
      PROVE  LiveJobs(works') = LiveJobs(works) /\ LivePaid(works') = LivePaid(works)
  BY <1>1, <1>5 DEF LiveJobs, LivePaid
<1>6. ASSUME w.state \notin {"queued", "running"}
      PROVE  LiveJobs(works') \subseteq LiveJobs(works) /\ LivePaid(works') \subseteq LivePaid(works)
  BY <1>1, <1>6 DEF LiveJobs, LivePaid
<1> QED
  BY <1>1, <1>2, <1>3, <1>4, <1>5, <1>6

LEMMA InsertForm ==
  ASSUME SpendTyped, NEW key \in Keys, NEW counted \in BOOLEAN, Insert(key, counted)
  PROVE  \E n \in Jobs, w \in WorkRow :
            /\ works[n].state = "none" /\ w.state = "queued" /\ w.key = key /\ w.tries < max_attempts
            /\ works' = [works EXCEPT ![n] = w] /\ unchecked' = unchecked + (IF counted THEN 0 ELSE 1)
<1>1. PICK n \in Jobs : /\ works[n].state = "none"
                        /\ works' = [works EXCEPT ![n] = [key |-> key, state |-> "queued", tries |-> 0]]
                        /\ unchecked' = unchecked + (IF counted THEN 0 ELSE 1)
  BY DEF Insert
<1> DEFINE w == [key |-> key, state |-> "queued", tries |-> 0]
<1>2. w \in WorkRow /\ w.state = "queued" /\ w.key = key /\ w.tries < max_attempts
  BY Limits DEF WorkRow
<1>3. works' = [works EXCEPT ![n] = w]
  BY <1>1
<1> HIDE DEF w
<1> QED
  BY <1>1, <1>2, <1>3

\* A job comes to life beside the clicks.
LEMMA UncountedKeeps ==
  ASSUME PlacesInv, NEW n \in Jobs, NEW w \in WorkRow, works' = [works EXCEPT ![n] = w], w.state = "queued",
         w.tries < max_attempts, unchecked' = unchecked + 1,
         UNCHANGED <<attempts, clicks, account, projects, ledger, billed, lost>>
  PROVE  PlacesInv'
<1>1. /\ WorksTyped(works') /\ LanesTyped(attempts, works') /\ LiveJobs(works') \subseteq LiveJobs(works) \cup {n}
      /\ LivePaid(works') \subseteq LivePaid(works) \cup {n}
  BY RowChanges DEF PlacesInv, SpendTyped
<1>2. SpendTyped'
  BY <1>1 DEF PlacesInv, SpendTyped
<1>3. JobsFit(works', unchecked') /\ \A k : HasPlace(k, works, unchecked) => HasPlace(k, works', unchecked')
  BY <1>1, OneUncounted
<1> QED
  BY <1>2, <1>3 DEF PlacesInv

LEMMA ReviveForm ==
  ASSUME SpendTyped, NEW n \in Jobs, Revive(n)
  PROVE  \E w \in WorkRow : /\ works' = [works EXCEPT ![n] = w] /\ w.state = "queued" /\ w.tries < max_attempts
                            /\ w.key = works[n].key /\ works[n].state = "ended"
<1> DEFINE w == [works[n] EXCEPT !.state = "queued", !.tries = 0]
<1>1. works[n] \in WorkRow
  BY DEF SpendTyped, WorksTyped
<1>2. w \in WorkRow /\ w.state = "queued" /\ w.tries < max_attempts /\ w.key = works[n].key
  <2>1. 0 \in 0 .. max_attempts /\ 0 < max_attempts
    BY Limits
  <2>2. w.state = "queued" /\ w.tries = 0 /\ w.key = works[n].key
    BY <1>1 DEF WorkRow
  <2>3. w \in WorkRow
    BY <1>1, <2>1 DEF WorkRow
  <2> QED
    BY <2>1, <2>2, <2>3
<1>3. works' = [works EXCEPT ![n] = w] /\ works[n].state = "ended"
  BY <1>1 DEF Revive, SpendTyped, WorksTyped, WorkRow
<1> HIDE DEF w
<1> QED
  BY <1>2, <1>3

LEMMA UnaskedForm ==
  ASSUME SpendTyped, Unasked
  PROVE  \E n \in Jobs, w \in WorkRow :
            /\ works[n].state = "none" /\ w.state = "queued" /\ w.tries < max_attempts
            /\ works' = [works EXCEPT ![n] = w] /\ unchecked' = unchecked + 1
<1>1. PICK key \in Keys : Insert(key, FALSE)
  BY DEF Unasked
<1>2. PICK n \in Jobs, w \in WorkRow :
            /\ works[n].state = "none" /\ w.state = "queued" /\ w.key = key /\ w.tries < max_attempts
            /\ works' = [works EXCEPT ![n] = w] /\ unchecked' = unchecked + (IF FALSE THEN 0 ELSE 1)
  BY <1>1, InsertForm
<1> QED
  BY <1>2

\* What EnqueueWork does: nothing, or one more job of the click's key.
LEMMA EnqueueForm ==
  ASSUME SpendTyped, NEW c \in Clicks, EnqueueWork(c)
  PROVE  /\ clicks[c].pc = "enqueue" /\ clicks' = [clicks EXCEPT ![c] = NoClick] /\ account' = 0
         /\ UNCHANGED <<attempts, projects, ledger, billed, lost>>
         /\ \/ UNCHANGED <<works, unchecked>>
            \/ \E n \in Jobs, w \in WorkRow :
                  /\ works[n].state = "none" /\ w.state = "queued" /\ w.key = clicks[c].key
                  /\ w.tries < max_attempts /\ works' = [works EXCEPT ![n] = w]
                  /\ unchecked' = unchecked + (IF clicks[c].free THEN 1 ELSE 0)
<1>1. /\ clicks[c].pc = "enqueue" /\ clicks' = [clicks EXCEPT ![c] = NoClick] /\ account' = 0
      /\ UNCHANGED <<attempts, projects, ledger, billed, lost>>
  BY DEF EnqueueWork, Leaves
<1>2. clicks[c].free \in BOOLEAN
  BY DEF SpendTyped, ClickRow
<1>3. ASSUME Exists(clicks[c].key.project), Insert(clicks[c].key, ~clicks[c].free)
      PROVE  \E n \in Jobs, w \in WorkRow :
                /\ works[n].state = "none" /\ w.state = "queued" /\ w.key = clicks[c].key
                /\ w.tries < max_attempts /\ works' = [works EXCEPT ![n] = w]
                /\ unchecked' = unchecked + (IF clicks[c].free THEN 1 ELSE 0)
  <2>1. PICK n \in Jobs : /\ works[n].state = "none"
                          /\ works' = [works EXCEPT ![n] = [key |-> clicks[c].key, state |-> "queued", tries |-> 0]]
                          /\ unchecked' = unchecked + (IF ~clicks[c].free THEN 0 ELSE 1)
    BY <1>3 DEF Insert
  <2> DEFINE w == [key |-> clicks[c].key, state |-> "queued", tries |-> 0]
  <2>2. w \in WorkRow /\ w.state = "queued" /\ w.key = clicks[c].key /\ w.tries < max_attempts
    BY Limits DEF WorkRow, SpendTyped, ClickRow
  <2>3. works' = [works EXCEPT ![n] = w] /\ unchecked' = unchecked + (IF clicks[c].free THEN 1 ELSE 0)
    BY <1>2, <2>1
  <2> HIDE DEF w
  <2> QED
    BY <2>1, <2>2, <2>3
<1> QED
  BY <1>1, <1>3 DEF EnqueueWork

\* The account is held by the click that inserts, so no other has a place.
LEMMA EnqueueKeepsPlaces == ASSUME PlacesInv, NEW c \in Clicks, EnqueueWork(c) PROVE PlacesInv'
<1>1. SpendTyped /\ clicks[c] \in ClickRow /\ unchecked \in Nat
  BY DEF PlacesInv, SpendTyped
<1>2. /\ clicks[c].pc = "enqueue" /\ clicks' = [clicks EXCEPT ![c] = NoClick] /\ account' = 0
      /\ UNCHANGED <<attempts, projects, ledger, billed, lost>>
  BY <1>1, EnqueueForm
<1>3. account = c
  BY <1>2 DEF PlacesInv, CountsAlone
<1>4. CountsAlone(clicks', account')
  BY <1>2, <1>3, NoClickIsFine, LockMoves
<1>5. CASE UNCHANGED <<works, unchecked>>
  BY <1>2, <1>4, <1>5, NoClickIsFine, ClickMoves
<1>6. ASSUME NEW n \in Jobs, NEW w \in WorkRow,
             works[n].state = "none", w.state = "queued", w.key = clicks[c].key,
             w.tries < max_attempts, works' = [works EXCEPT ![n] = w],
             unchecked' = unchecked + (IF clicks[c].free THEN 1 ELSE 0)
      PROVE  PlacesInv'
  <2>1. /\ WorksTyped(works') /\ LanesTyped(attempts, works') /\ LiveJobs(works') \subseteq LiveJobs(works) \cup {n}
        /\ works'[n] = w /\ \A m \in Jobs : m # n => works'[m] = works[m]
    BY <1>1, <1>6, RowChanges DEF SpendTyped
  <2>2. LivePaid(works') \subseteq IF w.key.kind \in PaidKinds THEN LivePaid(works) \cup {n} ELSE LivePaid(works)
    BY <2>1 DEF LivePaid, LiveJobs
  <2>3. unchecked' \in Nat
    BY <1>1, <1>6
  <2>4. SpendTyped'
    BY <1>1, <1>2, <2>1, <2>3, NoClickIsFine DEF SpendTyped
  <2>5. JobsFit(works', unchecked')
    <3>1. CASE clicks[c].free
      <4>1. unchecked' = unchecked + 1 /\ LivePaid(works') \subseteq LivePaid(works) \cup {n}
        BY <1>6, <2>2, <3>1
      <4> QED
        BY <2>1, <4>1, OneUncounted
    <3>2. CASE ~clicks[c].free
      <4>1. unchecked' = unchecked
        BY <1>1, <1>6, <3>2
      <4>2. HasPlace(clicks[c], works, unchecked) /\ JobsFit(works, unchecked)
        BY DEF PlacesInv
      <4>3. Cardinality(LiveJobs(works')) <= Cardinality(LiveJobs(works)) + 1
        BY <2>1, OneAtMost, SpendSetsAreFinite
      <4>4. Cardinality(LiveJobs(works')) <= quota_active_jobs + unchecked
        BY <1>1, <1>2, <3>2, <4>2, <4>3, Limits, SpendSetsAreFinite DEF HasPlace
      <4>5. Cardinality(LivePaid(works')) <= quota_active_paid_jobs + unchecked
        <5>1. CASE w.key.kind \in PaidKinds
          <6>1. Cardinality(LivePaid(works')) <= Cardinality(LivePaid(works)) + 1
            BY <2>2, <5>1, OneAtMost, SpendSetsAreFinite
          <6> QED
            BY <1>1, <1>2, <1>6, <3>2, <4>2, <5>1, <6>1, Limits, SpendSetsAreFinite DEF HasPlace
        <5>2. CASE w.key.kind \notin PaidKinds
          <6>1. Cardinality(LivePaid(works')) <= Cardinality(LivePaid(works))
            BY <2>2, <5>2, Smaller, SpendSetsAreFinite
          <6> QED
            BY <1>1, <4>2, <6>1, Limits, SpendSetsAreFinite DEF JobsFit
        <5> QED
          BY <5>1, <5>2
      <4> QED
        BY <4>1, <4>4, <4>5 DEF JobsFit
    <3> QED
      BY <1>1, <3>1, <3>2
  <2>6. ASSUME NEW d \in Clicks
        PROVE  HasPlace(clicks'[d], works', unchecked') /\ HasRoom(clicks'[d], projects')
    <3>1. CASE d = c
      <4>1. clicks'[d] = NoClick
        BY <1>1, <1>2, <3>1 DEF SpendTyped
      <4> QED
        BY <4>1, NoClickIsFine
    <3>2. CASE d # c
      <4>1. clicks'[d] = clicks[d]
        BY <1>1, <1>2, <3>2 DEF SpendTyped
      <4>2. clicks[d].pc \notin {"spend", "enqueue"}
        BY <1>3, <3>2 DEF PlacesInv, CountsAlone
      <4>3. HasPlace(clicks[d], works', unchecked')
        BY <4>2 DEF HasPlace
      <4>4. HasRoom(clicks[d], projects)
        BY DEF PlacesInv
      <4> QED
        BY <1>2, <4>1, <4>3, <4>4
    <3> QED
      BY <3>1, <3>2
  <2> QED
    BY <1>2, <1>4, <2>4, <2>5, <2>6 DEF PlacesInv
<1> QED
  BY <1>1, <1>5, <1>6, EnqueueForm

\* Steps of the attempts: their rows go on or end.
LEMMA AttemptKeepsPlaces ==
  ASSUME PlacesInv, WorksTyped(works'), LanesTyped(attempts', works'),
         LiveJobs(works') \subseteq LiveJobs(works), LivePaid(works') \subseteq LivePaid(works),
         UNCHANGED <<clicks, account, projects, unchecked>>, ledger' \in Nat, lost' \in Nat, billed' \in Int
  PROVE  PlacesInv'
<1>1. SpendTyped'
  BY DEF PlacesInv, SpendTyped
<1>2. /\ JobsFit(works', unchecked') /\ ProjectsFit(projects')
      /\ \A k : HasPlace(k, works, unchecked) => HasPlace(k, works', unchecked')
  BY NoMore
<1> QED
  BY <1>1, <1>2 DEF PlacesInv

LEMMA ProjectsKeepPlaces ==
  ASSUME PlacesInv, NEW p \in Projects, HourPasses(p) \/ RemoveProject(p) \/ \E c \in Clicks : CreateProject(c)
  PROVE  PlacesInv'
<1>1. ProjectsTyped(projects) /\ WorksTyped(works) /\ LanesTyped(attempts, works) /\ unchecked \in Nat
  BY DEF PlacesInv, SpendTyped
<1>2. CASE HourPasses(p)
  <2>1. ProjectsTyped(projects') /\ Present(projects') \subseteq Present(projects) /\ Recent(projects') \subseteq Recent(projects)
    BY <1>1, <1>2 DEF HourPasses, ProjectsTyped, Present, Recent
  <2>2. UNCHANGED <<works, attempts, clicks, account, ledger, billed, lost, unchecked>>
    BY <1>2 DEF HourPasses
  <2>3. SpendTyped'
    BY <2>1, <2>2 DEF PlacesInv, SpendTyped
  <2>4. /\ JobsFit(works', unchecked') /\ ProjectsFit(projects')
        /\ \A k : HasPlace(k, works, unchecked) => HasPlace(k, works', unchecked')
        /\ \A k : HasRoom(k, projects) => HasRoom(k, projects')
    BY <2>1, <2>2, NoMore
  <2> QED
    BY <2>2, <2>3, <2>4 DEF PlacesInv
<1>3. CASE RemoveProject(p)
  <2>1. ProjectsTyped(projects') /\ Present(projects') \subseteq Present(projects) /\ Recent(projects') \subseteq Recent(projects)
    BY <1>1, <1>3 DEF RemoveProject, ProjectsTyped, Present, Recent
  <2>2. UNCHANGED <<attempts, clicks, account, ledger, billed, lost, unchecked>>
    BY <1>3 DEF RemoveProject
  <2>3. \A n \in Jobs : works'[n] = works[n] \/ works'[n] = [works[n] EXCEPT !.state = "ended"]
    BY <1>3 DEF RemoveProject
  <2>4. \A n \in Jobs : /\ works'[n] \in WorkRow /\ works'[n].key = works[n].key
                        /\ works'[n] = works[n] \/ works'[n].state = "ended"
    BY <1>1, <2>3 DEF WorksTyped, WorkRow
  <2>5. works' \in [Jobs -> WorkRow]
    BY <1>3, <2>4 DEF RemoveProject
  <2>6. WorksTyped(works') /\ LanesTyped(attempts', works')
    BY <1>1, <2>2, <2>4, <2>5 DEF WorksTyped, LanesTyped
  <2>7. LiveJobs(works') \subseteq LiveJobs(works) /\ LivePaid(works') \subseteq LivePaid(works)
    BY <2>4 DEF LiveJobs, LivePaid
  <2>8. SpendTyped'
    BY <2>1, <2>2, <2>6 DEF PlacesInv, SpendTyped
  <2>9. /\ JobsFit(works', unchecked') /\ ProjectsFit(projects')
        /\ \A k : HasPlace(k, works, unchecked) => HasPlace(k, works', unchecked')
        /\ \A k : HasRoom(k, projects) => HasRoom(k, projects')
    BY <2>1, <2>2, <2>7, NoMore
  <2> QED
    BY <2>2, <2>8, <2>9 DEF PlacesInv
<1>4. ASSUME NEW c \in Clicks, CreateProject(c) PROVE PlacesInv'
  <2>1. PICK q \in Projects : projects[q] = "none" /\ projects' = [projects EXCEPT ![q] = "new"]
    BY <1>4 DEF CreateProject
  <2>2. /\ clicks[c].pc = "create" /\ clicks' = [clicks EXCEPT ![c] = NoClick] /\ account' = 0
        /\ UNCHANGED <<works, attempts, ledger, billed, lost, unchecked>>
    BY <1>4 DEF CreateProject, Leaves
  <2>3. account = c
    BY <2>2 DEF PlacesInv, CountsAlone
  <2>4. /\ ProjectsTyped(projects') /\ Present(projects') \subseteq Present(projects) \cup {q}
        /\ Recent(projects') \subseteq Recent(projects) \cup {q}
    BY <1>1, <2>1 DEF ProjectsTyped, Present, Recent
  <2>5. /\ Cardinality(Present(projects')) <= Cardinality(Present(projects)) + 1
        /\ Cardinality(Recent(projects')) <= Cardinality(Recent(projects)) + 1
    BY <2>4, OneAtMost, SpendSetsAreFinite
  <2>6. HasRoom(clicks[c], projects)
    BY DEF PlacesInv
  <2>7. ProjectsFit(projects')
    BY <2>2, <2>5, <2>6, Limits, SpendSetsAreFinite DEF HasRoom, ProjectsFit
  <2>8. SpendTyped'
    BY <2>2, <2>4, NoClickIsFine DEF PlacesInv, SpendTyped
  <2>9. CountsAlone(clicks', account')
    BY <2>2, <2>3, NoClickIsFine, LockMoves
  <2>10. ASSUME NEW d \in Clicks
         PROVE  HasPlace(clicks'[d], works', unchecked') /\ HasRoom(clicks'[d], projects')
    <3>1. CASE d = c
      <4>1. clicks'[d] = NoClick
        BY <2>2, <3>1 DEF PlacesInv, SpendTyped
      <4> QED
        BY <4>1, NoClickIsFine
    <3>2. CASE d # c
      <4>1. clicks'[d] = clicks[d]
        BY <2>2, <3>2 DEF PlacesInv, SpendTyped
      <4>2. clicks[d].pc # "create"
        BY <2>3, <3>2 DEF PlacesInv, CountsAlone
      <4>3. HasRoom(clicks[d], projects') /\ HasPlace(clicks[d], works, unchecked)
        BY <4>2 DEF HasRoom, PlacesInv
      <4> QED
        BY <2>2, <4>1, <4>3
    <3> QED
      BY <3>1, <3>2
  <2> QED
    BY <2>2, <2>7, <2>8, <2>9, <2>10 DEF PlacesInv
<1> QED
  BY <1>2, <1>3, <1>4

\* An attempt begins: its number was not used before.
LEMMA BeginForm ==
  ASSUME SpendTyped, NEW l \in Lanes, NEW n \in Jobs, Begin(l, n)
  PROVE  \E w \in WorkRow, a \in LaneRow :
            /\ works' = [works EXCEPT ![n] = w] /\ w.state = "running" /\ w.key = works[n].key
            /\ w.tries = works[n].tries + 1 /\ works[n].state = "queued"
            /\ attempts' = [attempts EXCEPT ![l] = a] /\ attempts[l].pc = "idle"
            /\ a.job = n /\ a.pc = "live" /\ a.meter = 0
<1> DEFINE w == [works[n] EXCEPT !.state = "running", !.tries = @ + 1]
           a == [job |-> n, token |-> works[n].tries + 1, pc |-> "live", meter |-> 0]
<1>1. works[n] \in WorkRow /\ works[n].state = "queued" /\ works[n].tries < max_attempts /\ attempts[l].pc = "idle"
  BY DEF SpendTyped, WorksTyped, Begin
<1>2. works[n].tries + 1 \in 0 .. max_attempts /\ works[n].tries + 1 \in Nat
  BY <1>1, Limits DEF WorkRow
<1>3. w.state = "running" /\ w.tries = works[n].tries + 1 /\ w.key = works[n].key
  BY <1>1 DEF WorkRow
<1>4. w \in WorkRow
  BY <1>1, <1>2 DEF WorkRow
<1>5. a \in LaneRow /\ a.job = n /\ a.pc = "live" /\ a.meter = 0
  BY <1>2 DEF LaneRow
<1>6. works' = [works EXCEPT ![n] = w]
  BY <1>1 DEF Begin, SpendTyped, WorksTyped, WorkRow
<1>7. attempts' = [attempts EXCEPT ![l] = a]
  BY DEF Begin
<1> HIDE DEF w, a
<1> QED
  BY <1>1, <1>3, <1>4, <1>5, <1>6, <1>7

\* The row of a job is settled, or queued again while attempts are left.
LEMMA SettledForm ==
  ASSUME SpendTyped, NEW n \in Jobs, works[n].state = "running", NEW state \in {"queued", "ended"},
         state = "queued" => Again(n), works' = [works EXCEPT ![n].state = state]
  PROVE  /\ WorksTyped(works') /\ \A at : LanesTyped(at, works) => LanesTyped(at, works')
         /\ LiveJobs(works') \subseteq LiveJobs(works) /\ LivePaid(works') \subseteq LivePaid(works)
         /\ ToCome(works') \subseteq ToCome(works)
         /\ \A m \in Jobs : works'[m].key = works[m].key
<1> DEFINE w == [works[n] EXCEPT !.state = state]
<1>1. works[n] \in WorkRow /\ WorksTyped(works)
  BY DEF SpendTyped, WorksTyped
<1>2. w \in WorkRow /\ w.state = state /\ w.key = works[n].key /\ w.tries = works[n].tries
  BY <1>1 DEF WorkRow
<1>3. works' = [works EXCEPT ![n] = w]
  BY <1>1 DEF WorksTyped, WorkRow
<1>4. w.state = "queued" => w.tries < max_attempts
  BY <1>2 DEF Again
<1> HIDE DEF w
<1>5. /\ WorksTyped(works') /\ \A at : LanesTyped(at, works) => LanesTyped(at, works')
      /\ works'[n] = w /\ \A m \in Jobs : m # n => works'[m] = works[m]
      /\ LiveJobs(works') \subseteq LiveJobs(works) /\ LivePaid(works') \subseteq LivePaid(works)
  BY <1>1, <1>2, <1>3, <1>4, RowChanges
<1>6. ToCome(works') \subseteq ToCome(works)
  BY <1>2, <1>5 DEF ToCome
<1> QED
  BY <1>2, <1>5, <1>6

\* How an attempt, or the reaper, leaves the rows.
LEMMA EndForm ==
  ASSUME SpendTyped, (\E l \in Lanes : Verdict(l)) \/ (\E n \in Jobs : ReapWork(n))
  PROVE  /\ WorksTyped(works') /\ \A at : LanesTyped(at, works) => LanesTyped(at, works')
         /\ LiveJobs(works') \subseteq LiveJobs(works) /\ LivePaid(works') \subseteq LivePaid(works)
         /\ ToCome(works') \subseteq ToCome(works)
         /\ \A m \in Jobs : works'[m].key = works[m].key
<1>1. ASSUME NEW n \in Jobs, ReapWork(n)
      PROVE  /\ works[n].state = "running"
             /\ \E state \in {"queued", "ended"} : /\ state = "queued" => Again(n)
                                                   /\ works' = [works EXCEPT ![n].state = state]
  BY <1>1 DEF ReapWork
<1>2. ASSUME NEW l \in Lanes, Verdict(l)
      PROVE  \/ works' = works
             \/ /\ attempts[l].job \in Jobs /\ works[attempts[l].job].state = "running"
                /\ \E state \in {"queued", "ended"} : /\ state = "queued" => Again(attempts[l].job)
                                                      /\ works' = [works EXCEPT ![attempts[l].job].state = state]
  <2>1. attempts[l].job \in Jobs
    BY <1>2 DEF Verdict, SpendTyped, LanesTyped
  <2> QED
    BY <1>2, <2>1 DEF Verdict, Holds
<1>3. CASE works' = works
  BY <1>3 DEF SpendTyped
<1>4. \A n \in Jobs, state \in {"queued", "ended"} :
         /\ works[n].state = "running" /\ works' = [works EXCEPT ![n].state = state]
         /\ (state = "queued" => Again(n))
         => /\ WorksTyped(works') /\ \A at : LanesTyped(at, works) => LanesTyped(at, works')
            /\ LiveJobs(works') \subseteq LiveJobs(works) /\ LivePaid(works') \subseteq LivePaid(works)
            /\ ToCome(works') \subseteq ToCome(works)
            /\ \A m \in Jobs : works'[m].key = works[m].key
  BY SettledForm
<1> QED
  BY <1>1, <1>2, <1>3, <1>4

\* One lane changes.
LEMMA LaneChanges ==
  ASSUME NEW ws, LanesTyped(attempts, ws), NEW l \in Lanes, NEW a \in LaneRow, attempts' = [attempts EXCEPT ![l] = a],
         IF a.pc = "idle" THEN a.meter = 0 ELSE a.job \in Jobs /\ ws[a.job].state # "none"
  PROVE  LanesTyped(attempts', ws) /\ \A m \in Lanes : attempts'[m] = IF m = l THEN a ELSE attempts[m]
BY DEF LanesTyped

\* What a lane is after a step that leaves its rows.
LEMMA LaneForm ==
  ASSUME SpendTyped, NEW l \in Lanes, Meter(l) \/ Flush(l) \/ Forgotten(l) \/ Verdict(l)
  PROVE  /\ attempts[l].pc # "idle" /\ attempts[l].job \in Jobs /\ works[attempts[l].job].state # "none"
         /\ \E a \in LaneRow :
              /\ attempts' = [attempts EXCEPT ![l] = a]
              /\ Meter(l) => a.meter = 1 /\ a.pc = "live" /\ a.job = attempts[l].job
              /\ Verdict(l) => a.meter = attempts[l].meter /\ a.pc = "flush" /\ a.job = attempts[l].job
              /\ Flush(l) \/ Forgotten(l) => a.pc = "idle" /\ a.meter = 0
              /\ a.pc # "idle" => a.job = attempts[l].job
              /\ a.pc = "idle" => a.meter = 0
<1>1. attempts[l].pc # "idle" /\ attempts[l] \in LaneRow
  BY DEF Meter, Flush, Forgotten, Verdict, SpendTyped, LanesTyped
<1>2. attempts[l].job \in Jobs /\ works[attempts[l].job].state # "none"
  BY <1>1 DEF SpendTyped, LanesTyped
<1> DEFINE m == [attempts[l] EXCEPT !.meter = 1]
           v == [attempts[l] EXCEPT !.pc = "flush"]
<1>3. m \in LaneRow /\ m.meter = 1 /\ m.pc = attempts[l].pc /\ m.job = attempts[l].job
  BY <1>1 DEF LaneRow
<1>4. v \in LaneRow /\ v.meter = attempts[l].meter /\ v.pc = "flush" /\ v.job = attempts[l].job
  BY <1>1 DEF LaneRow
<1>5. NoAttempt \in LaneRow /\ NoAttempt.pc = "idle" /\ NoAttempt.meter = 0
  BY DEF NoAttempt, LaneRow
<1>6. Meter(l) => attempts' = [attempts EXCEPT ![l] = m] /\ attempts[l].pc = "live"
  BY DEF Meter
<1>7. Verdict(l) => attempts' = [attempts EXCEPT ![l] = v] /\ attempts[l].pc = "live" /\ billed' = billed
  BY DEF Verdict
<1>8. Flush(l) \/ Forgotten(l) => attempts' = [attempts EXCEPT ![l] = NoAttempt]
  BY DEF Flush, Forgotten
<1> HIDE DEF m, v
<1>9. \A a \in LaneRow : attempts' = [attempts EXCEPT ![l] = a] => attempts'[l] = a
  BY DEF SpendTyped, LanesTyped
<1>10. attempts'[l] \in LaneRow /\ attempts' = [attempts EXCEPT ![l] = attempts'[l]]
  BY <1>3, <1>4, <1>5, <1>6, <1>7, <1>8, <1>9
<1>11. /\ Meter(l) => attempts'[l] = m /\ attempts[l].pc = "live"
       /\ Verdict(l) => attempts'[l] = v
       /\ Flush(l) \/ Forgotten(l) => attempts'[l] = NoAttempt
  BY <1>3, <1>4, <1>5, <1>6, <1>7, <1>8, <1>9
<1>12. /\ Meter(l) => attempts'[l].meter = 1 /\ attempts'[l].pc = "live" /\ attempts'[l].job = attempts[l].job
       /\ Verdict(l) => /\ attempts'[l].meter = attempts[l].meter /\ attempts'[l].pc = "flush"
                        /\ attempts'[l].job = attempts[l].job
       /\ Flush(l) \/ Forgotten(l) => attempts'[l].pc = "idle" /\ attempts'[l].meter = 0
  BY <1>3, <1>4, <1>5, <1>11
<1>13. /\ attempts'[l].pc # "idle" => attempts'[l].job = attempts[l].job
       /\ attempts'[l].pc = "idle" => attempts'[l].meter = 0
  BY <1>12
<1> QED
  BY <1>1, <1>2, <1>10, <1>12, <1>13

LEMMA LanesKeepPlaces ==
  ASSUME PlacesInv, NEW l \in Lanes,
         Meter(l) \/ Verdict(l) \/ Flush(l) \/ Forgotten(l) \/ \E n \in Jobs : Begin(l, n)
  PROVE  PlacesInv'
<1>1. SpendTyped /\ ledger \in Nat /\ lost \in Nat /\ billed \in Int
  BY DEF PlacesInv, SpendTyped
<1>2. UNCHANGED <<clicks, account, projects, unchecked>>
  BY DEF Meter, Verdict, Flush, Forgotten, Begin
<1>3. ASSUME NEW n \in Jobs, Begin(l, n) PROVE PlacesInv'
  <2>1. PICK w \in WorkRow, a \in LaneRow :
            /\ works' = [works EXCEPT ![n] = w] /\ w.state = "running" /\ w.key = works[n].key
            /\ w.tries = works[n].tries + 1 /\ works[n].state = "queued"
            /\ attempts' = [attempts EXCEPT ![l] = a] /\ attempts[l].pc = "idle"
            /\ a.job = n /\ a.pc = "live" /\ a.meter = 0
    BY <1>1, <1>3, BeginForm
  <2>2. /\ WorksTyped(works') /\ works'[n] = w /\ LanesTyped(attempts, works')
        /\ LiveJobs(works') = LiveJobs(works) /\ LivePaid(works') = LivePaid(works)
    BY <1>1, <2>1, RowChanges DEF SpendTyped
  <2>3. LanesTyped(attempts', works')
    BY <2>1, <2>2, LaneChanges
  <2>4. UNCHANGED <<ledger, lost, billed>>
    BY <1>3 DEF Begin
  <2> QED
    BY <1>1, <1>2, <2>2, <2>3, <2>4, AttemptKeepsPlaces
<1>4. CASE Meter(l) \/ Verdict(l) \/ Flush(l) \/ Forgotten(l)
  <2>1. /\ attempts[l].job \in Jobs /\ works[attempts[l].job].state # "none"
        /\ \E a \in LaneRow : /\ attempts' = [attempts EXCEPT ![l] = a]
                              /\ a.pc # "idle" => a.job = attempts[l].job
                              /\ a.pc = "idle" => a.meter = 0
    BY <1>1, <1>4, LaneForm
  <2>2. LanesTyped(attempts', works)
    <3>1. PICK a \in LaneRow : /\ attempts' = [attempts EXCEPT ![l] = a]
                               /\ a.pc # "idle" => a.job = attempts[l].job
                               /\ a.pc = "idle" => a.meter = 0
      BY <2>1
    <3>2. LanesTyped(attempts, works)
      BY <1>1 DEF SpendTyped
    <3>3. IF a.pc = "idle" THEN a.meter = 0 ELSE a.job \in Jobs /\ works[a.job].state # "none"
      BY <2>1, <3>1
    <3> QED
      BY <3>1, <3>2, <3>3, LaneChanges
  <2>3. CASE ~Verdict(l)
    <3>1. works' = works
      BY <1>4, <2>3 DEF Meter, Flush, Forgotten
    <3>2. attempts[l].meter \in {0, 1}
      BY <1>1 DEF SpendTyped, LanesTyped, LaneRow
    <3>3. ledger' \in Nat /\ lost' \in Nat /\ billed' \in Int
      BY <1>1, <1>4, <2>3, <3>2 DEF Meter, Flush, Forgotten
    <3> QED
      BY <1>1, <1>2, <2>2, <3>1, <3>3, AttemptKeepsPlaces DEF SpendTyped
  <2>4. CASE Verdict(l)
    <3>1. /\ WorksTyped(works') /\ LanesTyped(attempts', works')
          /\ LiveJobs(works') \subseteq LiveJobs(works) /\ LivePaid(works') \subseteq LivePaid(works)
      BY <1>1, <2>2, <2>4, EndForm
    <3>2. UNCHANGED <<ledger, lost, billed>>
      BY <2>4 DEF Verdict
    <3> QED
      BY <1>1, <1>2, <3>1, <3>2, AttemptKeepsPlaces
  <2> QED
    BY <2>3, <2>4
<1> QED
  BY <1>3, <1>4

LEMMA MonthKeepsPlaces == PlacesInv /\ MonthPasses => PlacesInv'
<1> SUFFICES ASSUME PlacesInv, MonthPasses PROVE PlacesInv'
  OBVIOUS
<1>1. billed' = Cardinality(Unflushed(attempts)) /\ ledger' = 0 /\ lost' = 0
  BY DEF MonthPasses, Unflushed
<1>2. billed' \in Int /\ ledger' \in Nat /\ lost' \in Nat
  BY <1>1, SpendSetsAreFinite
<1>3. UNCHANGED <<works, attempts, clicks, account, projects, unchecked>>
  BY DEF MonthPasses
<1> QED
  BY <1>2, <1>3, AttemptKeepsPlaces DEF PlacesInv, SpendTyped

LEMMA PlacesNext == PlacesInv /\ [SpendNext]_spendVars => PlacesInv'
<1> SUFFICES ASSUME PlacesInv, [SpendNext]_spendVars PROVE PlacesInv'
  OBVIOUS
<1>1. SpendTyped
  BY DEF PlacesInv
<1>2. CASE UNCHANGED spendVars
  <2>1. UNCHANGED <<works, attempts, clicks, account, projects, ledger, billed, lost, unchecked>>
    BY <1>2 DEF spendVars
  <2> QED
    BY <2>1, AttemptKeepsPlaces DEF PlacesInv, SpendTyped
<1>3. ASSUME NEW n \in Jobs, Revive(n) PROVE PlacesInv'
  <2>1. PICK w \in WorkRow : /\ works' = [works EXCEPT ![n] = w] /\ w.state = "queued" /\ w.tries < max_attempts
    BY <1>1, <1>3, ReviveForm
  <2>2. unchecked' = unchecked + 1 /\ UNCHANGED <<attempts, clicks, account, projects, ledger, billed, lost>>
    BY <1>3 DEF Revive
  <2> QED
    BY <2>1, <2>2, UncountedKeeps
<1>4. ASSUME NEW n \in Jobs, ReapWork(n) PROVE PlacesInv'
  <2>1. UNCHANGED <<attempts, clicks, account, projects, ledger, billed, lost, unchecked>>
    BY <1>4 DEF ReapWork
  <2>2. /\ WorksTyped(works') /\ LanesTyped(attempts', works')
        /\ LiveJobs(works') \subseteq LiveJobs(works) /\ LivePaid(works') \subseteq LivePaid(works)
    BY <1>1, <1>4, <2>1, EndForm DEF SpendTyped
  <2> QED
    BY <1>1, <2>1, <2>2, AttemptKeepsPlaces DEF SpendTyped
<1>5. CASE Unasked
  <2>1. PICK n \in Jobs, w \in WorkRow :
            w.state = "queued" /\ w.tries < max_attempts /\ works' = [works EXCEPT ![n] = w] /\ unchecked' = unchecked + 1
    BY <1>1, <1>5, UnaskedForm
  <2>2. UNCHANGED <<attempts, clicks, account, projects, ledger, billed, lost>>
    BY <1>5 DEF Unasked
  <2> QED
    BY <2>1, <2>2, UncountedKeeps
<1>6. ASSUME NEW c \in Clicks, CreateProject(c) PROVE PlacesInv'
  <2>1. PICK p \in Projects : projects[p] = "none"
    BY <1>6 DEF CreateProject
  <2> QED
    BY <1>6, ProjectsKeepPlaces
<1> QED
  BY <1>2, <1>3, <1>4, <1>5, <1>6, ClicksKeepPlaces, EnqueueKeepsPlaces, ProjectsKeepPlaces, LanesKeepPlaces,
     MonthKeepsPlaces DEF SpendNext

LEMMA PlacesInit == SpendInit => PlacesInv
<1> SUFFICES ASSUME SpendInit PROVE PlacesInv
  OBVIOUS
<1>1. NoWork \in WorkRow /\ NoWork.state = "none" /\ NoAttempt \in LaneRow /\ NoAttempt.pc = "idle" /\ NoAttempt.meter = 0
  BY Limits DEF NoWork, WorkRow, NoAttempt, LaneRow
<1>2. SpendTyped
  BY <1>1, NoClickIsFine DEF SpendInit, SpendTyped, WorksTyped, LanesTyped, ProjectsTyped
<1>3. \A c \in Clicks : clicks[c] = NoClick
  BY DEF SpendInit
<1>4. LiveJobs(works) = {} /\ LivePaid(works) = {} /\ Present(projects) = {} /\ Recent(projects) = {}
  BY <1>1 DEF SpendInit, LiveJobs, LivePaid, Present, Recent
<1>5. unchecked = 0
  BY DEF SpendInit
<1>6. JobsFit(works, unchecked) /\ ProjectsFit(projects)
  BY <1>4, <1>5, Limits, FS_EmptySet DEF JobsFit, ProjectsFit
<1>7. CountsAlone(clicks, account)
  BY <1>3, NoClickIsFine DEF CountsAlone
<1> QED
  BY <1>2, <1>3, <1>6, <1>7, NoClickIsFine DEF PlacesInv

\* No interleaving of clicks, retries and deletions passes a quota of the
\* account (admit_job, admit_project, under its advisory lock).
THEOREM AccountKeepsItsLimits == SpendSpec => []AccountWithinLimits
<1>1. PlacesInv => AccountWithinLimits
  BY ActiveIsLive DEF PlacesInv, JobsFit, ProjectsFit, AccountWithinLimits
<1> QED
  BY <1>1, PlacesInit, PlacesNext, PTL DEF SpendSpec
-----------------------------------------------------------------------------
\* The budget.

\* Each job that was not counted is allowed all its attempts.
LEMMA MoreAllowed ==
  ASSUME NEW un \in Nat
  PROVE  Allowed(un) \in Int /\ Allowed(un + 1) = Allowed(un) + max_attempts
<1>1. \A m, n \in Nat : m * n \in Nat /\ m * (n + 1) = m * n + m
  OBVIOUS
<1>2. quota_active_jobs + (un + 1) = (quota_active_jobs + un) + 1 /\ quota_active_jobs + un \in Nat
  BY Limits
<1>3. /\ max_attempts * (quota_active_jobs + un) \in Nat
      /\ max_attempts * (quota_active_jobs + (un + 1)) = max_attempts * (quota_active_jobs + un) + max_attempts
  BY <1>1, <1>2, Limits
<1> QED
  BY <1>3, Limits, SpendSetsAreFinite DEF Allowed

\* A step after which no more may be bought than before.
LEMMA NoMoreSpent ==
  ASSUME BudgetInv, PlacesInv', billed' - lost' = ledger' + Cardinality(Unflushed(attempts')),
         Spent(ledger', attempts', works') <= Spent(ledger, attempts, works), unchecked' = unchecked,
         \A c \in Clicks : MayBuy(clicks'[c]) => MayBuy(clicks[c])
                               \/ Spent(ledger', attempts', works') + max_attempts <= Allowed(unchecked)
  PROVE  BudgetInv'
<1>1. ledger \in Nat /\ ledger' \in Nat /\ unchecked \in Nat
  BY DEF BudgetInv, PlacesInv, SpendTyped
<1>2. Spent(ledger', attempts', works') \in Nat /\ Spent(ledger, attempts, works) \in Nat
  BY <1>1, SpendSetsAreFinite DEF Spent
<1>3. Allowed(unchecked) \in Int
  BY <1>1, MoreAllowed
<1>4. Spent(ledger', attempts', works') <= Allowed(unchecked')
  BY <1>2, <1>3 DEF BudgetInv
<1>5. ASSUME NEW c \in Clicks, MayBuy(clicks'[c])
      PROVE  Spent(ledger', attempts', works') + max_attempts <= Allowed(unchecked')
  BY <1>2, <1>3, <1>5, Limits DEF BudgetInv
<1> QED
  BY <1>4, <1>5 DEF BudgetInv

\* A job that comes to life may buy as often as it has attempts.
LEMMA MoreToCome ==
  ASSUME NEW n \in Jobs, NEW w, works'[n] = w, \A m \in Jobs : m # n => works'[m] = works[m]
  PROVE  /\ Cardinality(ToCome(works')) <= Cardinality(ToCome(works)) + max_attempts
         /\ w.key.kind \notin Billing => Cardinality(ToCome(works')) <= Cardinality(ToCome(works))
<1> DEFINE own == {n} \X (1 .. max_attempts)
<1>1. IsFiniteSet(1 .. max_attempts) /\ Cardinality(1 .. max_attempts) = max_attempts
  BY Counting, Limits
<1>2. IsFiniteSet({n}) /\ Cardinality({n}) = 1
  BY FS_Singleton
<1>3. IsFiniteSet(own) /\ Cardinality(own) = 1 * max_attempts
  BY <1>1, <1>2, FS_Product
<1>4. ToCome(works') \subseteq ToCome(works) \cup own
  BY DEF ToCome
<1> HIDE DEF own
<1>5. IsFiniteSet(ToCome(works) \cap own) /\ Cardinality(ToCome(works) \cap own) \in Nat
  BY <1>3, FS_Intersection, FS_CardinalityType
<1>6. /\ IsFiniteSet(ToCome(works) \cup own)
      /\ Cardinality(ToCome(works) \cup own) =
            Cardinality(ToCome(works)) + Cardinality(own) - Cardinality(ToCome(works) \cap own)
  BY <1>3, SpendSetsAreFinite, FS_Union
<1>7. Cardinality(ToCome(works')) <= Cardinality(ToCome(works) \cup own)
  BY <1>4, <1>6, Smaller
<1>8. Cardinality(ToCome(works')) <= Cardinality(ToCome(works)) + max_attempts
  BY <1>3, <1>5, <1>6, <1>7, Limits, SpendSetsAreFinite
<1>9. ASSUME w.key.kind \notin Billing PROVE Cardinality(ToCome(works')) <= Cardinality(ToCome(works))
  <2>1. ToCome(works') \subseteq ToCome(works)
    BY <1>9 DEF ToCome
  <2> QED
    BY <2>1, Smaller, SpendSetsAreFinite
<1> QED
  BY <1>8, <1>9

\* No lane's kind of work changes when a row does.
LEMMA SameOnTheWay ==
  ASSUME LanesTyped(attempts, works), \A n \in Jobs : works[n].state # "none" => works'[n].key = works[n].key
  PROVE  OnTheWay(attempts, works') = OnTheWay(attempts, works)
BY DEF LanesTyped, OnTheWay

LEMMA UncountedSpends ==
  ASSUME BudgetInv, PlacesInv', NEW n \in Jobs, NEW w \in WorkRow, works' = [works EXCEPT ![n] = w],
         works[n].state # "none" => w.key = works[n].key, unchecked' = unchecked + 1,
         UNCHANGED <<attempts, clicks, ledger, billed, lost>>
  PROVE  BudgetInv'
<1>1. SpendTyped /\ unchecked \in Nat /\ ledger \in Nat
  BY DEF BudgetInv, PlacesInv, SpendTyped
<1>2. works'[n] = w /\ \A m \in Jobs : m # n => works'[m] = works[m]
  BY <1>1 DEF SpendTyped, WorksTyped
<1>3. OnTheWay(attempts, works') = OnTheWay(attempts, works)
  BY <1>1, <1>2, SameOnTheWay DEF SpendTyped
<1>4. Cardinality(ToCome(works')) <= Cardinality(ToCome(works)) + max_attempts
  BY <1>2, MoreToCome
<1>5. Spent(ledger', attempts', works') <= Spent(ledger, attempts, works) + max_attempts
  BY <1>1, <1>3, <1>4, Limits, SpendSetsAreFinite DEF Spent
<1>6. Allowed(unchecked) \in Int /\ Allowed(unchecked') = Allowed(unchecked) + max_attempts
  BY <1>1, MoreAllowed
<1>7. Spent(ledger, attempts, works) \in Nat /\ Spent(ledger', attempts', works') \in Nat
  BY <1>1, SpendSetsAreFinite DEF Spent
<1>8. Spent(ledger', attempts', works') <= Allowed(unchecked')
  BY <1>5, <1>6, <1>7, Limits DEF BudgetInv
<1>9. ASSUME NEW c \in Clicks, MayBuy(clicks'[c])
      PROVE  Spent(ledger', attempts', works') + max_attempts <= Allowed(unchecked')
  BY <1>5, <1>6, <1>7, <1>9, Limits DEF BudgetInv
<1> QED
  BY <1>8, <1>9 DEF BudgetInv

\* The budget is read: whatever may come fits into what the account may have.
LEMMA BudgetIsRead ==
  ASSUME PlacesInv, NEW k \in ClickRow, k.pc = "spend", ~k.free, HasPlace(k, works, unchecked),
         ledger < quota_monthly_usd
  PROVE  Spent(ledger, attempts, works) + max_attempts <= Allowed(unchecked)
<1> DEFINE room == quota_active_jobs + unchecked
           all == LiveJobs(works) \X (1 .. max_attempts)
<1>1. ledger \in Nat /\ unchecked \in Nat /\ room \in Nat
  BY Limits DEF PlacesInv, SpendTyped
<1>2. Cardinality(LiveJobs(works)) + 1 <= room
  BY <1>1, Limits, SpendSetsAreFinite DEF HasPlace
<1>3. IsFiniteSet(1 .. max_attempts) /\ Cardinality(1 .. max_attempts) = max_attempts
  BY Counting, Limits
<1>4. IsFiniteSet(all) /\ Cardinality(all) = Cardinality(LiveJobs(works)) * max_attempts
  BY <1>3, FS_Product, SpendSetsAreFinite
<1>5. ToCome(works) \subseteq all
  BY DEF ToCome, LiveJobs
<1> HIDE DEF all, room
<1>6. Cardinality(ToCome(works)) <= Cardinality(all)
  BY <1>4, <1>5, Smaller
<1>7. \A held \in Nat : held + 1 <= room => held * max_attempts + max_attempts <= max_attempts * room
  <2> SUFFICES ASSUME NEW held \in Nat, held + 1 <= room
               PROVE  held * max_attempts + max_attempts <= max_attempts * room
    OBVIOUS
  <2>1. PICK rest \in Nat : room = (held + 1) + rest
    <3>1. room - (held + 1) \in Nat /\ room = (held + 1) + (room - (held + 1))
      BY <1>1
    <3> QED
      BY <3>1
  <2>2. \A a, b, c \in Nat : a * ((b + 1) + c) = b * a + a + a * c /\ a * c >= 0
    OBVIOUS
  <2>3. max_attempts \in Nat
    BY Limits
  <2>4. max_attempts * room = held * max_attempts + max_attempts + max_attempts * rest /\ max_attempts * rest >= 0
    BY <2>1, <2>2, <2>3
  <2>5. \A a, b \in Nat : a * b \in Nat
    OBVIOUS
  <2>6. held * max_attempts \in Nat /\ max_attempts * rest \in Nat
    BY <2>3, <2>5
  <2> QED
    BY <2>3, <2>4, <2>6
<1>8. Cardinality(all) + max_attempts <= max_attempts * room
  BY <1>2, <1>4, <1>7, SpendSetsAreFinite
<1>9. \A a, b \in Nat : a * b \in Nat
  OBVIOUS
<1>10. max_attempts * room \in Nat /\ Cardinality(all) \in Nat
  BY <1>1, <1>4, <1>9, Limits, FS_CardinalityType
<1>11. Allowed(unchecked) = quota_monthly_usd - 1 + max_attempts * room + Cardinality(Lanes)
  BY DEF Allowed, room
<1> QED
  BY <1>1, <1>6, <1>8, <1>10, <1>11, Limits, SpendSetsAreFinite DEF Spent

\* A click inserts only what was allowed when it was counted.
LEMMA ClicksKeepBudget ==
  ASSUME BudgetInv, PlacesInv', NEW c \in Clicks,
         Ask(c) \/ Admit(c) \/ Count(c) \/ Budgeted(c) \/ AskProject(c) \/ AdmitProject(c) \/ CreateProject(c)
  PROVE  BudgetInv'
<1>1. UNCHANGED <<works, attempts, ledger, billed, lost, unchecked>>
  BY DEF Ask, Admit, Count, Budgeted, AskProject, AdmitProject, CreateProject
<1>2. PlacesInv /\ clicks \in [Clicks -> ClickRow] /\ clicks[c] \in ClickRow /\ ledger \in Nat
  BY DEF BudgetInv, PlacesInv, SpendTyped
<1>3. PICK k : clicks' = [clicks EXCEPT ![c] = k] /\
               (MayBuy(k) => Spent(ledger, attempts, works) + max_attempts <= Allowed(unchecked))
  <2>1. ASSUME NEW pc \in {"found", "create", "spend"}, Goes(c, pc)
        PROVE  \E k : clicks' = [clicks EXCEPT ![c] = k] /\ ~MayBuy(k)
    <3>1. clicks' = [clicks EXCEPT ![c] = [clicks[c] EXCEPT !.pc = pc]]
      BY <2>1 DEF Goes
    <3>2. ~MayBuy([clicks[c] EXCEPT !.pc = pc])
      BY <1>2, <2>1 DEF MayBuy, ClickRow
    <3> QED
      BY <3>1, <3>2
  <2>2. Leaves(c) => \E k : clicks' = [clicks EXCEPT ![c] = k] /\ ~MayBuy(k)
    BY NoClickIsFine DEF Leaves
  <2>3. CASE Ask(c)
    <3>1. PICK key : clicks' = [clicks EXCEPT ![c] = [pc |-> "wait", key |-> key, free |-> FALSE]]
      BY <2>3 DEF Ask
    <3>2. ~MayBuy([pc |-> "wait", key |-> key, free |-> FALSE])
      BY DEF MayBuy
    <3> QED
      BY <3>1, <3>2
  <2>4. CASE Admit(c)
    <3> DEFINE found == active_with_key(clicks[c].key) # {}
               k == [clicks[c] EXCEPT !.free = found, !.pc = IF found THEN "enqueue" ELSE "count"]
    <3>1. clicks' = [clicks EXCEPT ![c] = k]
      BY <1>2, <2>4 DEF Admit, ClickRow
    <3>2. k.free \/ k.pc = "count"
      BY <1>2 DEF ClickRow
    <3> HIDE DEF k
    <3>3. ~MayBuy(k)
      BY <3>2 DEF MayBuy
    <3> QED
      BY <3>1, <3>3
  <2>5. CASE Count(c) /\ ~Leaves(c)
    <3>1. CASE clicks[c].key.kind \in Billing
      <4>1. Goes(c, "spend")
        BY <2>5, <3>1 DEF Count
      <4> QED
        BY <2>1, <4>1
    <3>2. CASE clicks[c].key.kind \notin Billing
      <4>1. clicks' = [clicks EXCEPT ![c] = [clicks[c] EXCEPT !.pc = "enqueue"]]
        BY <2>5, <3>2 DEF Count, Goes
      <4>2. [clicks[c] EXCEPT !.pc = "enqueue"].key = clicks[c].key
        BY <1>2 DEF ClickRow
      <4>3. ~MayBuy([clicks[c] EXCEPT !.pc = "enqueue"])
        BY <3>2, <4>2 DEF MayBuy
      <4> QED
        BY <4>1, <4>3
    <3> QED
      BY <3>1, <3>2
  <2>6. CASE Budgeted(c) /\ ~Leaves(c)
    <3> DEFINE k == [clicks[c] EXCEPT !.pc = "enqueue"]
    <3>1. clicks' = [clicks EXCEPT ![c] = k] /\ ledger < quota_monthly_usd /\ clicks[c].pc = "spend"
      BY <2>6 DEF Budgeted, Goes
    <3>2. k.free = clicks[c].free
      BY <1>2 DEF ClickRow
    <3>3. HasPlace(clicks[c], works, unchecked)
      BY <1>2 DEF PlacesInv
    <3> HIDE DEF k
    <3>4. MayBuy(k) => ~clicks[c].free
      BY <3>2 DEF MayBuy
    <3>5. MayBuy(k) => Spent(ledger, attempts, works) + max_attempts <= Allowed(unchecked)
      BY <1>2, <3>1, <3>3, <3>4, BudgetIsRead
    <3> QED
      BY <3>1, <3>5
  <2>7. CASE AskProject(c)
    BY <2>1, <2>7 DEF AskProject
  <2>8. CASE AdmitProject(c)
    BY <2>1, <2>2, <2>8 DEF AdmitProject
  <2>9. CASE CreateProject(c)
    BY <2>2, <2>9 DEF CreateProject
  <2>10. Count(c) \/ Budgeted(c) => Leaves(c) \/ (Count(c) /\ ~Leaves(c)) \/ (Budgeted(c) /\ ~Leaves(c))
    OBVIOUS
  <2> QED
    BY <2>2, <2>3, <2>4, <2>5, <2>6, <2>7, <2>8, <2>9, <2>10
<1>4. \A d \in Clicks : clicks'[d] = IF d = c THEN k ELSE clicks[d]
  BY <1>2, <1>3
<1>5. \A d \in Clicks : MayBuy(clicks'[d]) => MayBuy(clicks[d])
                               \/ Spent(ledger', attempts', works') + max_attempts <= Allowed(unchecked)
  BY <1>1, <1>3, <1>4
<1>6. billed' - lost' = ledger' + Cardinality(Unflushed(attempts'))
  BY <1>1 DEF BudgetInv
<1>7. Spent(ledger', attempts', works') <= Spent(ledger, attempts, works)
  BY <1>1, <1>2, SpendSetsAreFinite DEF Spent
<1> QED
  BY <1>1, <1>5, <1>6, <1>7, NoMoreSpent

LEMMA EnqueueKeepsBudget == ASSUME BudgetInv, PlacesInv', NEW c \in Clicks, EnqueueWork(c) PROVE BudgetInv'
<1>1. PlacesInv /\ SpendTyped /\ unchecked \in Nat /\ ledger \in Nat /\ clicks \in [Clicks -> ClickRow]
  BY DEF BudgetInv, PlacesInv, SpendTyped
<1>2. /\ clicks[c].pc = "enqueue" /\ clicks' = [clicks EXCEPT ![c] = NoClick] /\ account' = 0
      /\ UNCHANGED <<attempts, projects, ledger, billed, lost>>
      /\ \/ UNCHANGED <<works, unchecked>>
         \/ \E n \in Jobs, w \in WorkRow :
               /\ works[n].state = "none" /\ w.state = "queued" /\ w.key = clicks[c].key
               /\ w.tries < max_attempts /\ works' = [works EXCEPT ![n] = w]
               /\ unchecked' = unchecked + (IF clicks[c].free THEN 1 ELSE 0)
  BY <1>1, EnqueueForm
<1>3. account = c
  BY <1>2 DEF BudgetInv, PlacesInv, CountsAlone
\* No click has anything left to insert.
<1>4. \A d \in Clicks : ~MayBuy(clicks'[d])
  <2>1. \A d \in Clicks : clicks'[d] = IF d = c THEN NoClick ELSE clicks[d]
    BY <1>1, <1>2
  <2>2. \A d \in Clicks : d # c => clicks[d].pc # "enqueue"
    BY <1>1, <1>3 DEF PlacesInv, CountsAlone
  <2> QED
    BY <2>1, <2>2, NoClickIsFine DEF MayBuy
<1>5. billed' - lost' = ledger' + Cardinality(Unflushed(attempts'))
  BY <1>2 DEF BudgetInv
<1>6. Allowed(unchecked) \in Int /\ Spent(ledger, attempts, works) \in Nat
  BY <1>1, MoreAllowed, SpendSetsAreFinite DEF Spent
<1>7. Spent(ledger', attempts', works') <= Allowed(unchecked')
  <2>1. CASE UNCHANGED <<works, unchecked>>
    BY <1>2, <2>1 DEF BudgetInv
  <2>2. ASSUME NEW n \in Jobs, NEW w \in WorkRow, works[n].state = "none", w.key = clicks[c].key,
               works' = [works EXCEPT ![n] = w], unchecked' = unchecked + (IF clicks[c].free THEN 1 ELSE 0)
        PROVE  Spent(ledger', attempts', works') <= Allowed(unchecked')
    <3>1. works'[n] = w /\ \A m \in Jobs : m # n => works'[m] = works[m]
      BY <1>1, <2>2 DEF SpendTyped, WorksTyped
    <3>2. OnTheWay(attempts, works') = OnTheWay(attempts, works)
      BY <1>1, <2>2, <3>1, SameOnTheWay DEF SpendTyped
    <3>3. /\ Cardinality(ToCome(works')) <= Cardinality(ToCome(works)) + max_attempts
          /\ w.key.kind \notin Billing => Cardinality(ToCome(works')) <= Cardinality(ToCome(works))
      BY <3>1, MoreToCome
    <3>4. /\ Spent(ledger', attempts', works') \in Nat
          /\ Spent(ledger', attempts', works') <= Spent(ledger, attempts, works) + max_attempts
          /\ w.key.kind \notin Billing => Spent(ledger', attempts', works') <= Spent(ledger, attempts, works)
      BY <1>1, <1>2, <3>2, <3>3, Limits, SpendSetsAreFinite DEF Spent
    <3>5. Spent(ledger, attempts, works) <= Allowed(unchecked)
      BY DEF BudgetInv
    <3>6. CASE clicks[c].free
      <4>1. Allowed(unchecked') = Allowed(unchecked) + max_attempts
        BY <1>1, <2>2, <3>6, MoreAllowed
      <4> QED
        BY <1>6, <3>4, <3>5, <4>1, Limits
    <3>7. CASE ~clicks[c].free
      <4>1. unchecked' = unchecked
        BY <1>1, <2>2, <3>7
      <4>2. CASE clicks[c].key.kind \in Billing
        <5>1. Spent(ledger, attempts, works) + max_attempts <= Allowed(unchecked)
          BY <1>2, <3>7, <4>2 DEF BudgetInv, MayBuy
        <5> QED
          BY <1>6, <3>4, <4>1, <5>1, Limits
      <4>3. CASE clicks[c].key.kind \notin Billing
        BY <1>6, <2>2, <3>4, <3>5, <4>1, <4>3
      <4> QED
        BY <4>2, <4>3
    <3> QED
      BY <3>6, <3>7
  <2> QED
    BY <1>2, <2>1, <2>2
<1> QED
  BY <1>4, <1>5, <1>7 DEF BudgetInv

\* A step of a lane that leaves the clicks: what it may have bought is counted
\* once, to come, on its way, or in the ledger.
LEMMA BesideClicks ==
  ASSUME BudgetInv, PlacesInv', UNCHANGED <<clicks, unchecked>>,
         billed' - lost' = ledger' + Cardinality(Unflushed(attempts')),
         Spent(ledger', attempts', works') <= Spent(ledger, attempts, works)
  PROVE  BudgetInv'
<1>1. \A c \in Clicks : MayBuy(clicks'[c]) => MayBuy(clicks[c])
                               \/ Spent(ledger', attempts', works') + max_attempts <= Allowed(unchecked)
  OBVIOUS
<1> QED
  BY <1>1, NoMoreSpent

LEMMA BeginKeepsBudget ==
  ASSUME BudgetInv, PlacesInv', NEW l \in Lanes, NEW n \in Jobs, Begin(l, n) PROVE BudgetInv'
<1>1. SpendTyped /\ ledger \in Nat
  BY DEF BudgetInv, PlacesInv, SpendTyped
<1>2. PICK w \in WorkRow, a \in LaneRow :
          /\ works' = [works EXCEPT ![n] = w] /\ w.state = "running" /\ w.key = works[n].key
          /\ w.tries = works[n].tries + 1 /\ works[n].state = "queued"
          /\ attempts' = [attempts EXCEPT ![l] = a] /\ attempts[l].pc = "idle"
          /\ a.job = n /\ a.pc = "live" /\ a.meter = 0
  BY <1>1, BeginForm
<1>3. UNCHANGED <<clicks, unchecked, ledger, lost, billed>>
  BY DEF Begin
<1>4. works'[n] = w /\ \A m \in Jobs : m # n => works'[m] = works[m]
  BY <1>1, <1>2 DEF SpendTyped, WorksTyped
<1>5. \A m \in Lanes : attempts'[m] = IF m = l THEN a ELSE attempts[m]
  BY <1>1, <1>2 DEF SpendTyped, LanesTyped
<1>6. attempts[l].meter = 0 /\ works[n].tries < max_attempts /\ works[n].tries \in Nat
  BY <1>1, <1>2 DEF SpendTyped, LanesTyped, WorksTyped, WorkRow
<1>7. Unflushed(attempts') = Unflushed(attempts)
  BY <1>2, <1>5, <1>6 DEF Unflushed
<1>8. \A m \in Lanes : m # l /\ attempts[m].pc # "idle" => attempts[m].job \in Jobs
  BY <1>1 DEF SpendTyped, LanesTyped
<1>9. \A m \in Jobs : works'[m].key = works[m].key
  BY <1>2, <1>4
<1>10. /\ ToCome(works') \subseteq ToCome(works)
       /\ OnTheWay(attempts', works') \subseteq OnTheWay(attempts, works) \cup {l}
  <2>1. ToCome(works') \subseteq ToCome(works)
    <3> SUFFICES ASSUME NEW v \in ToCome(works') PROVE v \in ToCome(works)
      OBVIOUS
    <3>1. v \in Jobs \X (1 .. max_attempts) /\ v[1] \in Jobs /\ v[2] \in Nat
      BY Limits DEF ToCome
    <3>2. /\ works'[v[1]].state \in {"queued", "running"} /\ works'[v[1]].key.kind \in Billing
          /\ works'[v[1]].tries < v[2]
      BY DEF ToCome
    <3>3. /\ works[v[1]].state \in {"queued", "running"} /\ works[v[1]].key.kind \in Billing
          /\ works[v[1]].tries < v[2]
      BY <1>2, <1>4, <1>6, <3>1, <3>2
    <3> QED
      BY <3>1, <3>3 DEF ToCome
  <2>2. OnTheWay(attempts', works') \subseteq OnTheWay(attempts, works) \cup {l}
    BY <1>5, <1>8, <1>9 DEF OnTheWay
  <2> QED
    BY <2>1, <2>2
<1>11. CASE works[n].key.kind \in Billing
  <2> DEFINE pair == <<n, works[n].tries + 1>>
  <2>1. pair \in ToCome(works)
    <3>1. works[n].tries + 1 \in 1 .. max_attempts /\ works[n].tries < works[n].tries + 1
      BY <1>6, Limits
    <3> QED
      BY <1>2, <1>11, <3>1 DEF ToCome
  <2>2. pair \notin ToCome(works')
    BY <1>2, <1>4, <1>6 DEF ToCome
  <2> HIDE DEF pair
  <2>3. ToCome(works') \subseteq ToCome(works) \ {pair}
    BY <1>10, <2>2
  <2>4. /\ IsFiniteSet(ToCome(works) \ {pair})
        /\ Cardinality(ToCome(works) \ {pair}) = Cardinality(ToCome(works)) - 1
    BY <2>1, FS_RemoveElement, SpendSetsAreFinite
  <2>5. Cardinality(ToCome(works')) <= Cardinality(ToCome(works)) - 1
    BY <2>3, <2>4, Smaller
  <2>6. Cardinality(OnTheWay(attempts', works')) <= Cardinality(OnTheWay(attempts, works)) + 1
    BY <1>10, OneAtMost, SpendSetsAreFinite
  <2>7. Spent(ledger', attempts', works') <= Spent(ledger, attempts, works)
    BY <1>1, <1>3, <2>5, <2>6, SpendSetsAreFinite DEF Spent
  <2> QED
    BY <1>3, <1>7, <2>7, BesideClicks DEF BudgetInv
<1>12. CASE works[n].key.kind \notin Billing
  <2>1. OnTheWay(attempts', works') \subseteq OnTheWay(attempts, works)
    BY <1>2, <1>4, <1>5, <1>10, <1>12 DEF OnTheWay
  <2>2. /\ Cardinality(ToCome(works')) <= Cardinality(ToCome(works))
        /\ Cardinality(OnTheWay(attempts', works')) <= Cardinality(OnTheWay(attempts, works))
    BY <1>10, <2>1, Smaller, SpendSetsAreFinite
  <2>3. Spent(ledger', attempts', works') <= Spent(ledger, attempts, works)
    BY <1>1, <1>3, <2>2, SpendSetsAreFinite DEF Spent
  <2> QED
    BY <1>3, <1>7, <2>3, BesideClicks DEF BudgetInv
<1> QED
  BY <1>11, <1>12

LEMMA LanesKeepBudget ==
  ASSUME BudgetInv, PlacesInv', NEW l \in Lanes, Meter(l) \/ Verdict(l) \/ Flush(l) \/ Forgotten(l)
  PROVE  BudgetInv'
<1>1. SpendTyped /\ ledger \in Nat /\ billed \in Int /\ lost \in Nat
  BY DEF BudgetInv, PlacesInv, SpendTyped
<1>2. UNCHANGED <<clicks, unchecked>>
  BY DEF Meter, Verdict, Flush, Forgotten
<1>3. attempts[l].pc # "idle" /\ attempts[l].job \in Jobs /\ attempts[l].meter \in {0, 1}
  BY <1>1, LaneForm DEF SpendTyped, LanesTyped, LaneRow
<1>4. PICK a \in LaneRow :
          /\ attempts' = [attempts EXCEPT ![l] = a]
          /\ Meter(l) => a.meter = 1 /\ a.pc = "live" /\ a.job = attempts[l].job
          /\ Verdict(l) => a.meter = attempts[l].meter /\ a.pc = "flush" /\ a.job = attempts[l].job
          /\ Flush(l) \/ Forgotten(l) => a.pc = "idle" /\ a.meter = 0
  BY <1>1, LaneForm
<1>5. \A m \in Lanes : attempts'[m] = IF m = l THEN a ELSE attempts[m]
  BY <1>1, <1>4 DEF SpendTyped, LanesTyped
<1>6. billed - lost = ledger + Cardinality(Unflushed(attempts))
  BY DEF BudgetInv
<1>7. \A m \in Lanes : attempts[m].pc # "idle" => attempts[m].job \in Jobs
  BY <1>1 DEF SpendTyped, LanesTyped
<1>8. CASE Meter(l)
  <2>1. /\ works' = works /\ ledger' = ledger /\ lost' = lost /\ billed' = billed + 1
        /\ attempts[l].meter = 0 /\ attempts[l].pc = "live" /\ works[attempts[l].job].key.kind \in Billing
    BY <1>8 DEF Meter
  <2>2. Unflushed(attempts') = Unflushed(attempts) \cup {l} /\ l \notin Unflushed(attempts)
    BY <1>4, <1>5, <1>8, <2>1 DEF Unflushed
  <2>3. Cardinality(Unflushed(attempts')) = Cardinality(Unflushed(attempts)) + 1
    BY <2>2, FS_AddElement, SpendSetsAreFinite
  <2>4. OnTheWay(attempts', works') = OnTheWay(attempts, works)
    BY <1>4, <1>5, <1>8, <2>1 DEF OnTheWay
  <2>5. billed' - lost' = ledger' + Cardinality(Unflushed(attempts'))
    BY <1>1, <1>6, <2>1, <2>3, SpendSetsAreFinite
  <2>6. Spent(ledger', attempts', works') <= Spent(ledger, attempts, works)
    BY <1>1, <2>1, <2>4, SpendSetsAreFinite DEF Spent
  <2> QED
    BY <1>2, <2>5, <2>6, BesideClicks
<1>9. CASE Verdict(l)
  <2>1. UNCHANGED <<ledger, billed, lost>>
    BY <1>9 DEF Verdict
  <2>2. ToCome(works') \subseteq ToCome(works) /\ \A m \in Jobs : works'[m].key = works[m].key
    BY <1>1, <1>9, EndForm
  <2>3. Unflushed(attempts') = Unflushed(attempts)
    BY <1>4, <1>5, <1>9 DEF Unflushed
  <2>4. OnTheWay(attempts', works') \subseteq OnTheWay(attempts, works)
    BY <1>4, <1>5, <1>7, <1>9, <2>2 DEF OnTheWay
  <2>5. /\ Cardinality(ToCome(works')) <= Cardinality(ToCome(works))
        /\ Cardinality(OnTheWay(attempts', works')) <= Cardinality(OnTheWay(attempts, works))
    BY <2>2, <2>4, Smaller, SpendSetsAreFinite
  <2>6. Spent(ledger', attempts', works') <= Spent(ledger, attempts, works)
    BY <1>1, <2>1, <2>5, SpendSetsAreFinite DEF Spent
  <2> QED
    BY <1>2, <1>6, <2>1, <2>3, <2>6, BesideClicks
<1>10. CASE Flush(l) \/ Forgotten(l)
  <2>1. /\ works' = works /\ billed' = billed
        /\ \/ ledger' = ledger + attempts[l].meter /\ lost' = lost
           \/ ledger' = ledger /\ lost' = lost + attempts[l].meter
    BY <1>10 DEF Flush, Forgotten
  <2>2. Unflushed(attempts') = Unflushed(attempts) \ {l} /\ (l \in Unflushed(attempts) <=> attempts[l].meter = 1)
    BY <1>4, <1>5, <1>10 DEF Unflushed
  <2>3. Cardinality(Unflushed(attempts')) = Cardinality(Unflushed(attempts)) - attempts[l].meter
    <3>1. CASE attempts[l].meter = 1
      BY <2>2, <3>1, FS_RemoveElement, SpendSetsAreFinite
    <3>2. CASE attempts[l].meter = 0
      <4>1. Unflushed(attempts') = Unflushed(attempts)
        BY <2>2, <3>2
      <4> QED
        BY <3>2, <4>1, SpendSetsAreFinite
    <3> QED
      BY <1>3, <3>1, <3>2
  <2>4. OnTheWay(attempts', works') \subseteq OnTheWay(attempts, works) \ {l}
    BY <1>4, <1>5, <1>10, <2>1 DEF OnTheWay
  <2>5. attempts[l].meter = 1 => l \in OnTheWay(attempts, works)
    BY DEF OnTheWay
  <2>6. /\ IsFiniteSet(OnTheWay(attempts, works) \ {l})
        /\ Cardinality(OnTheWay(attempts, works) \ {l}) <= Cardinality(OnTheWay(attempts, works)) - attempts[l].meter
    <3>1. /\ IsFiniteSet(OnTheWay(attempts, works) \ {l})
          /\ Cardinality(OnTheWay(attempts, works) \ {l}) <= Cardinality(OnTheWay(attempts, works))
      BY Smaller, SpendSetsAreFinite, FS_Subset
    <3>2. CASE attempts[l].meter = 1
      <4>1. Cardinality(OnTheWay(attempts, works) \ {l}) = Cardinality(OnTheWay(attempts, works)) - 1
        BY <2>5, <3>2, FS_RemoveElement, SpendSetsAreFinite
      <4> QED
        BY <3>1, <3>2, <4>1, SpendSetsAreFinite
    <3>3. CASE attempts[l].meter = 0
      BY <3>1, <3>3, SpendSetsAreFinite
    <3> QED
      BY <1>3, <3>2, <3>3
  <2>7. Cardinality(OnTheWay(attempts', works')) <= Cardinality(OnTheWay(attempts, works) \ {l})
    BY <2>4, <2>6, Smaller
  <2>8. Cardinality(OnTheWay(attempts', works')) <= Cardinality(OnTheWay(attempts, works)) - attempts[l].meter
    BY <1>3, <2>4, <2>6, <2>7, Smaller, SpendSetsAreFinite
  <2>9. billed' - lost' = ledger' + Cardinality(Unflushed(attempts'))
    BY <1>1, <1>3, <1>6, <2>1, <2>3, SpendSetsAreFinite
  <2>10. Spent(ledger', attempts', works') <= Spent(ledger, attempts, works)
    BY <1>1, <1>3, <2>1, <2>8, SpendSetsAreFinite DEF Spent
  <2> QED
    BY <1>2, <2>9, <2>10, BesideClicks
<1> QED
  BY <1>8, <1>9, <1>10

\* The rest: rows and projects that end, and the month.
LEMMA OthersKeepBudget ==
  ASSUME BudgetInv, PlacesInv', (\E n \in Jobs : ReapWork(n)) \/ MonthPasses
                                \/ \E p \in Projects : HourPasses(p) \/ RemoveProject(p)
  PROVE  BudgetInv'
<1>1. SpendTyped /\ ledger \in Nat
  BY DEF BudgetInv, PlacesInv, SpendTyped
<1>2. UNCHANGED <<attempts, clicks, unchecked>>
  BY DEF ReapWork, MonthPasses, HourPasses, RemoveProject
<1>3. ToCome(works') \subseteq ToCome(works) /\ \A m \in Jobs : works'[m].key = works[m].key
  <2>1. CASE \E n \in Jobs : ReapWork(n)
    BY <1>1, <2>1, EndForm
  <2>2. CASE MonthPasses \/ \E p \in Projects : HourPasses(p)
    BY <2>2 DEF MonthPasses, HourPasses
  <2>3. ASSUME NEW p \in Projects, RemoveProject(p)
        PROVE  ToCome(works') \subseteq ToCome(works) /\ \A m \in Jobs : works'[m].key = works[m].key
    <3>1. \A m \in Jobs : works'[m] = works[m] \/ works'[m] = [works[m] EXCEPT !.state = "ended"]
      BY <2>3 DEF RemoveProject
    <3>2. \A m \in Jobs : works[m] \in WorkRow
      BY <1>1 DEF SpendTyped, WorksTyped
    <3>3. \A m \in Jobs : /\ works'[m].key = works[m].key
                          /\ works'[m] = works[m] \/ works'[m].state = "ended"
      BY <3>1, <3>2 DEF WorkRow
    <3> QED
      BY <3>3 DEF ToCome
  <2> QED
    BY <2>1, <2>2, <2>3
<1>4. OnTheWay(attempts', works') = OnTheWay(attempts, works)
  BY <1>1, <1>2, <1>3, SameOnTheWay DEF SpendTyped
<1>5. Cardinality(ToCome(works')) <= Cardinality(ToCome(works))
  BY <1>3, Smaller, SpendSetsAreFinite
<1>6. ledger' \in Nat /\ ledger' <= ledger
  BY <1>1 DEF ReapWork, MonthPasses, HourPasses, RemoveProject
<1>7. Spent(ledger', attempts', works') <= Spent(ledger, attempts, works)
  BY <1>1, <1>4, <1>5, <1>6, SpendSetsAreFinite DEF Spent
<1>8. billed' - lost' = ledger' + Cardinality(Unflushed(attempts'))
  <2>1. CASE MonthPasses
    <3>1. billed' = Cardinality(Unflushed(attempts)) /\ ledger' = 0 /\ lost' = 0
      BY <2>1 DEF MonthPasses, Unflushed
    <3> QED
      BY <1>2, <3>1, SpendSetsAreFinite
  <2>2. CASE ~MonthPasses
    <3>1. UNCHANGED <<billed, lost, ledger>>
      BY <2>2 DEF ReapWork, HourPasses, RemoveProject
    <3> QED
      BY <1>2, <3>1 DEF BudgetInv
  <2> QED
    BY <2>1, <2>2
<1> QED
  BY <1>2, <1>7, <1>8, BesideClicks

LEMMA BudgetNext == BudgetInv /\ [SpendNext]_spendVars => BudgetInv'
<1> SUFFICES ASSUME BudgetInv, [SpendNext]_spendVars PROVE BudgetInv'
  OBVIOUS
<1>1. SpendTyped /\ PlacesInv'
  BY PlacesNext DEF BudgetInv, PlacesInv
<1>2. CASE UNCHANGED spendVars
  <2>1. UNCHANGED <<works, attempts, clicks, account, projects, ledger, billed, lost, unchecked>>
    BY <1>2 DEF spendVars
  <2>2. ledger \in Nat
    BY <1>1 DEF SpendTyped
  <2>3. Spent(ledger', attempts', works') <= Spent(ledger, attempts, works)
    BY <2>1, <2>2, SpendSetsAreFinite DEF Spent
  <2> QED
    BY <1>1, <2>1, <2>3, BesideClicks DEF BudgetInv
<1>3. ASSUME NEW n \in Jobs, Revive(n) PROVE BudgetInv'
  <2>1. PICK w \in WorkRow : works' = [works EXCEPT ![n] = w] /\ w.key = works[n].key
    BY <1>1, <1>3, ReviveForm
  <2>2. unchecked' = unchecked + 1 /\ UNCHANGED <<attempts, clicks, ledger, billed, lost>>
    BY <1>3 DEF Revive
  <2> QED
    BY <1>1, <2>1, <2>2, UncountedSpends
<1>4. CASE Unasked
  <2>1. PICK n \in Jobs, w \in WorkRow :
            works[n].state = "none" /\ works' = [works EXCEPT ![n] = w] /\ unchecked' = unchecked + 1
    BY <1>1, <1>4, UnaskedForm
  <2>2. UNCHANGED <<attempts, clicks, ledger, billed, lost>>
    BY <1>4 DEF Unasked
  <2> QED
    BY <1>1, <2>1, <2>2, UncountedSpends
<1> QED
  BY <1>1, <1>2, <1>3, <1>4, ClicksKeepBudget, EnqueueKeepsBudget, BeginKeepsBudget, LanesKeepBudget,
     OthersKeepBudget DEF SpendNext

LEMMA BudgetInit == SpendInit => BudgetInv
<1> SUFFICES ASSUME SpendInit PROVE BudgetInv
  OBVIOUS
<1>1. PlacesInv
  BY PlacesInit
<1>2. Unflushed(attempts) = {} /\ OnTheWay(attempts, works) = {} /\ ToCome(works) = {}
  BY DEF SpendInit, Unflushed, OnTheWay, ToCome, NoAttempt, NoWork
<1>3. Spent(ledger, attempts, works) = 0 /\ billed - lost = ledger + Cardinality(Unflushed(attempts))
  BY <1>2, FS_EmptySet DEF SpendInit, Spent
<1>4. \A c \in Clicks : ~MayBuy(clicks[c])
  BY NoClickIsFine DEF SpendInit
<1>5. \A m, n \in Nat : m * n \in Nat
  OBVIOUS
<1>6. quota_active_jobs + unchecked \in Nat
  BY Limits DEF SpendInit
<1>7. max_attempts * (quota_active_jobs + unchecked) \in Nat
  BY <1>5, <1>6, Limits
<1>8. 0 <= Allowed(unchecked)
  BY <1>7, Limits, SpendSetsAreFinite DEF Allowed
<1> QED
  BY <1>1, <1>3, <1>4, <1>8 DEF BudgetInv

\* The month's bill passes the budget by no more than the attempts of the jobs
\* that may be live at once, and those on their way (month_spend, Meter.flush).
THEOREM OvershootIsBounded == SpendSpec => []OvershootBounded
<1>1. BudgetInv => OvershootBounded
  <2> SUFFICES ASSUME BudgetInv PROVE OvershootBounded
    OBVIOUS
  <2>1. ledger \in Nat /\ unchecked \in Nat
    BY DEF BudgetInv, PlacesInv, SpendTyped
  <2>2. Unflushed(attempts) \subseteq OnTheWay(attempts, works)
    BY DEF Unflushed, OnTheWay
  <2>3. Cardinality(Unflushed(attempts)) <= Cardinality(OnTheWay(attempts, works))
    BY <2>2, Smaller, SpendSetsAreFinite
  <2>4. /\ billed - lost = ledger + Cardinality(Unflushed(attempts))
        /\ Spent(ledger, attempts, works) <= Allowed(unchecked)
    BY DEF BudgetInv
  <2>5. ledger + Cardinality(Unflushed(attempts)) <= Spent(ledger, attempts, works)
    BY <2>1, <2>3, SpendSetsAreFinite DEF Spent
  <2>6. Spent(ledger, attempts, works) \in Nat /\ Allowed(unchecked) \in Int
    BY <2>1, MoreAllowed, SpendSetsAreFinite DEF Spent
  <2>7. billed - lost <= Allowed(unchecked)
    BY <2>1, <2>4, <2>5, <2>6, SpendSetsAreFinite
  <2> QED
    BY <2>7 DEF Allowed, OvershootBounded
<1> QED
  BY <1>1, BudgetInit, BudgetNext, PTL DEF SpendSpec

\* A job and a click that asks for one have a key.
JobsKeyed(ws) == \A n \in Jobs : IF ws[n].state = "none" THEN ws[n].key = NoKey ELSE ws[n].key \in Keys

KeysKnown ==
    /\ JobsKeyed(works)
    /\ \A c \in Clicks : clicks[c].pc \in {"wait", "count", "spend", "enqueue"} => clicks[c].key \in Keys

SpendBounded == account \in Clicks \cup {0} /\ mishaps \in Nat

LEMMA InsertKnown ==
  ASSUME WorksTyped(works), JobsKeyed(works),
         NEW key \in Keys, NEW b \in BOOLEAN, Insert(key, b)
  PROVE  JobsKeyed(works')
<1>1. PICK n \in Jobs : works' = [works EXCEPT ![n] = [key |-> key, state |-> "queued", tries |-> 0]]
  BY DEF Insert
<1>2. \A m \in Jobs : works'[m] = IF m = n THEN [key |-> key, state |-> "queued", tries |-> 0] ELSE works[m]
  BY <1>1 DEF WorksTyped
<1> QED
  BY <1>2 DEF JobsKeyed

\* A change of one row leaves its key alone.
LEMMA RowKnown ==
  ASSUME WorksTyped(works), JobsKeyed(works),
         NEW n \in Jobs, works[n].state # "none", NEW w, w.key = works[n].key, w.state # "none",
         works' = [works EXCEPT ![n] = w]
  PROVE  JobsKeyed(works')
<1>1. \A m \in Jobs : works'[m] = IF m = n THEN w ELSE works[m]
  BY DEF WorksTyped
<1> QED
  BY <1>1 DEF JobsKeyed

LEMMA JobsKnown ==
  ASSUME SpendTyped, KeysKnown, [SpendNext]_spendVars
  PROVE  JobsKeyed(works')
<1> DEFINE Known == JobsKeyed(works')
<1>1. WorksTyped(works) /\ JobsKeyed(works)
  BY DEF SpendTyped, KeysKnown
<1>2. works \in [Jobs -> WorkRow]
  BY <1>1 DEF WorksTyped
<1>3. CASE works' = works
  BY <1>1, <1>3
<1>4. ASSUME NEW c \in Clicks, EnqueueWork(c) PROVE Known
  <2>1. clicks[c].key \in Keys /\ clicks[c].free \in BOOLEAN
    <3>1. clicks[c].pc = "enqueue" /\ clicks[c] \in ClickRow
      BY <1>4 DEF EnqueueWork, SpendTyped
    <3> QED
      BY <3>1 DEF KeysKnown, ClickRow
  <2>2. works' = works \/ Insert(clicks[c].key, ~clicks[c].free)
    BY <1>4 DEF EnqueueWork
  <2>3. CASE Insert(clicks[c].key, ~clicks[c].free)
    <3> DEFINE k == clicks[c].key
               b == ~clicks[c].free
    <3>1. k \in Keys /\ b \in BOOLEAN /\ Insert(k, b)
      BY <2>1, <2>3
    <3> HIDE DEF k, b
    <3> QED
      BY <1>1, <3>1, InsertKnown
  <2> QED
    BY <1>3, <2>2, <2>3
<1>5. CASE Unasked
  <2>1. PICK key \in Keys : Insert(key, FALSE)
    BY <1>5 DEF Unasked
  <2> QED
    BY <1>1, <2>1, InsertKnown
<1>6. ASSUME NEW n \in Jobs, works[n].state # "none", NEW w \in WorkRow, w.key = works[n].key, w.state # "none",
             works' = [works EXCEPT ![n] = w]
      PROVE  Known
  BY <1>1, <1>6, RowKnown
<1>7. ASSUME NEW n \in Jobs, NEW state \in {"queued", "ended"}, works[n].state # "none",
             works' = [works EXCEPT ![n].state = state]
      PROVE  Known
  <2> DEFINE w == [works[n] EXCEPT !.state = state]
  <2>1. w \in WorkRow /\ w.key = works[n].key /\ w.state # "none" /\ works' = [works EXCEPT ![n] = w]
    BY <1>2, <1>7 DEF WorkRow
  <2> HIDE DEF w
  <2> QED
    BY <1>6, <1>7, <2>1
<1>8. ASSUME NEW n \in Jobs, Revive(n) PROVE Known
  <2>1. PICK w \in WorkRow : works' = [works EXCEPT ![n] = w] /\ w.key = works[n].key /\ w.state # "none"
    BY <1>8, ReviveForm
  <2>2. works[n].state # "none"
    BY <1>8 DEF Revive
  <2> QED
    BY <1>6, <2>1, <2>2
<1>9. ASSUME NEW n \in Jobs, ReapWork(n) PROVE Known
  <2>1. works[n].state # "none" /\ \E state \in {"queued", "ended"} : works' = [works EXCEPT ![n].state = state]
    BY <1>9 DEF ReapWork
  <2> QED
    BY <1>7, <2>1
<1>10. ASSUME NEW p \in Projects, RemoveProject(p) PROVE Known
  <2>1. works' = [n \in Jobs |-> IF works[n].key.project = p THEN [works[n] EXCEPT !.state = "ended"] ELSE works[n]]
    BY <1>10 DEF RemoveProject
  <2>2. \A n \in Jobs : works'[n].key = works[n].key
    BY <1>2, <2>1 DEF WorkRow
  <2>3. ASSUME NEW n \in Jobs, works[n].state = "none" PROVE works'[n] = works[n]
    <3>1. works[n].key.project # p
      BY <1>1, <2>3, SpendingAssumption DEF JobsKeyed, NoKey
    <3> QED
      BY <2>1, <3>1
  <2>4. ASSUME NEW n \in Jobs, works[n].state # "none" PROVE works'[n].state # "none"
    BY <1>2, <2>1, <2>4 DEF WorkRow
  <2> QED
    BY <1>1, <2>2, <2>3, <2>4 DEF JobsKeyed
<1>11. ASSUME NEW l \in Lanes, NEW n \in Jobs, Begin(l, n) PROVE Known
  <2> DEFINE w == [works[n] EXCEPT !.state = "running", !.tries = @ + 1]
  <2>1. works[n].state = "queued" /\ works' = [works EXCEPT ![n] = w]
    BY <1>11 DEF Begin
  <2>2. w.key = works[n].key /\ w.state # "none"
    BY <1>2 DEF WorkRow
  <2> HIDE DEF w
  <2> QED
    BY <1>1, <2>1, <2>2, RowKnown
<1>12. ASSUME NEW l \in Lanes, Verdict(l) PROVE Known
  <2> DEFINE n == attempts[l].job
  <2>1. n \in Jobs /\ works[n].state # "none"
    BY <1>12 DEF Verdict, SpendTyped, LanesTyped
  <2>2. works' = works \/ \E state \in {"queued", "ended"} : works' = [works EXCEPT ![n].state = state]
    BY <1>12 DEF Verdict
  <2> HIDE DEF n
  <2> QED
    BY <1>3, <1>7, <2>1, <2>2
<1>13. ASSUME NEW c \in Clicks,
              \/ Ask(c) \/ Admit(c) \/ Count(c) \/ Budgeted(c)
              \/ AskProject(c) \/ AdmitProject(c) \/ CreateProject(c)
       PROVE  works' = works
  BY <1>13 DEF Ask, Admit, Count, Budgeted, AskProject, AdmitProject, CreateProject
<1>14. ASSUME \/ \E p \in Projects : HourPasses(p)
              \/ \E l \in Lanes : Meter(l) \/ Flush(l) \/ Forgotten(l)
              \/ MonthPasses \/ UNCHANGED spendVars
       PROVE  works' = works
  BY <1>14 DEF HourPasses, Meter, Flush, Forgotten, MonthPasses, spendVars
<1> QED
  BY <1>3, <1>4, <1>5, <1>8, <1>9, <1>10, <1>11, <1>12, <1>13, <1>14 DEF SpendNext

LEMMA ClicksKnown ==
  ASSUME SpendTyped, KeysKnown, [SpendNext]_spendVars
  PROVE  \A c \in Clicks : clicks'[c].pc \in {"wait", "count", "spend", "enqueue"} => clicks'[c].key \in Keys
<1> DEFINE Fine(k) == k.pc \in {"wait", "count", "spend", "enqueue"} => k.key \in Keys
<1>1. clicks \in [Clicks -> ClickRow] /\ \A c \in Clicks : Fine(clicks[c])
  BY DEF SpendTyped, KeysKnown
<1>2. CASE clicks' = clicks
  BY <1>1, <1>2
<1>3. ASSUME NEW c \in Clicks, NEW k, Fine(k), clicks' = [clicks EXCEPT ![c] = k]
      PROVE  \A d \in Clicks : Fine(clicks'[d])
  <2>1. \A d \in Clicks : clicks'[d] = IF d = c THEN k ELSE clicks[d]
    BY <1>1, <1>3
  <2> QED
    BY <1>1, <1>3, <2>1
<1>4. Fine(NoClick)
  BY DEF NoClick
<1>5. ASSUME NEW c \in Clicks, NEW pc, clicks' = [clicks EXCEPT ![c].pc = pc],
             pc \in {"spend", "enqueue"} => clicks[c].pc \in {"count", "spend"},
             pc \notin {"wait", "count"}
      PROVE  \A d \in Clicks : Fine(clicks'[d])
  <2> DEFINE k == [clicks[c] EXCEPT !.pc = pc]
  <2>1. clicks' = [clicks EXCEPT ![c] = k] /\ k.pc = pc /\ k.key = clicks[c].key
    BY <1>1, <1>5 DEF ClickRow
  <2> HIDE DEF k
  <2>2. Fine(k)
    BY <1>1, <1>5, <2>1
  <2> QED
    BY <1>3, <2>1, <2>2
<1>6. ASSUME NEW c \in Clicks, Leaves(c) PROVE \A d \in Clicks : Fine(clicks'[d])
  BY <1>3, <1>4, <1>6 DEF Leaves
<1>7. ASSUME NEW c \in Clicks, Ask(c) PROVE \A d \in Clicks : Fine(clicks'[d])
  <2>1. PICK key \in Keys : clicks' = [clicks EXCEPT ![c] = [pc |-> "wait", key |-> key, free |-> FALSE]]
    BY <1>7 DEF Ask
  <2> QED
    BY <1>3, <2>1
<1>8. ASSUME NEW c \in Clicks, Admit(c) PROVE \A d \in Clicks : Fine(clicks'[d])
  <2> DEFINE k == [clicks[c] EXCEPT !.free = active_with_key(clicks[c].key) # {},
                                    !.pc = IF active_with_key(clicks[c].key) # {} THEN "enqueue" ELSE "count"]
  <2>1. clicks[c].pc = "wait" /\ clicks' = [clicks EXCEPT ![c] = k] /\ k.key = clicks[c].key
    BY <1>1, <1>8 DEF Admit, ClickRow
  <2> HIDE DEF k
  <2> QED
    BY <1>1, <1>3, <2>1
<1>9. ASSUME NEW c \in Clicks, Count(c) \/ Budgeted(c) PROVE \A d \in Clicks : Fine(clicks'[d])
  <2>1. clicks[c].pc \in {"count", "spend"} /\
        (Leaves(c) \/ \E pc \in {"spend", "enqueue"} : clicks' = [clicks EXCEPT ![c].pc = pc])
    BY <1>9 DEF Count, Budgeted, Goes
  <2> QED
    BY <1>5, <1>6, <2>1
<1>10. ASSUME NEW c \in Clicks, AskProject(c) \/ AdmitProject(c) PROVE \A d \in Clicks : Fine(clicks'[d])
  <2>1. Leaves(c) \/ \E pc \in {"found", "create"} : clicks' = [clicks EXCEPT ![c].pc = pc]
    BY <1>10 DEF AskProject, AdmitProject, Goes
  <2> QED
    BY <1>5, <1>6, <2>1
<1>11. ASSUME NEW c \in Clicks, EnqueueWork(c) \/ CreateProject(c) PROVE \A d \in Clicks : Fine(clicks'[d])
  BY <1>6, <1>11 DEF EnqueueWork, CreateProject
<1>12. ASSUME \/ \E n \in Jobs : Revive(n) \/ ReapWork(n)
              \/ \E p \in Projects : HourPasses(p) \/ RemoveProject(p)
              \/ \E l \in Lanes : Meter(l) \/ Verdict(l) \/ Flush(l) \/ Forgotten(l) \/ \E n \in Jobs : Begin(l, n)
              \/ Unasked \/ MonthPasses \/ UNCHANGED spendVars
       PROVE  clicks' = clicks
  BY <1>12 DEF Revive, ReapWork, HourPasses, RemoveProject, Meter, Verdict, Flush, Forgotten, Begin, Unasked,
               MonthPasses, spendVars
<1> QED
  BY <1>2, <1>7, <1>8, <1>9, <1>10, <1>11, <1>12 DEF SpendNext

LEMMA SpendBoundedKeeps == SpendBounded /\ [SpendNext]_spendVars => SpendBounded'
<1> SUFFICES ASSUME SpendBounded, [SpendNext]_spendVars PROVE SpendBounded'
  OBVIOUS
<1>1. \A c \in Clicks : Leaves(c) => account' = 0
  BY DEF Leaves
<1>2. ASSUME NEW c \in Clicks,
             \/ Ask(c) \/ Admit(c) \/ Count(c) \/ Budgeted(c) \/ EnqueueWork(c)
             \/ AskProject(c) \/ AdmitProject(c) \/ CreateProject(c)
      PROVE  account' \in {account, c, 0} /\ mishaps' = mishaps
  BY <1>1, <1>2 DEF Ask, Admit, Count, Budgeted, EnqueueWork, AskProject, AdmitProject, CreateProject
<1>3. ASSUME \/ \E n \in Jobs : Revive(n) \/ ReapWork(n)
             \/ \E p \in Projects : HourPasses(p) \/ RemoveProject(p)
             \/ \E l \in Lanes : Meter(l) \/ Verdict(l) \/ Flush(l) \/ Forgotten(l) \/ \E n \in Jobs : Begin(l, n)
             \/ Unasked \/ MonthPasses \/ UNCHANGED spendVars
      PROVE  account' = account /\ mishaps' \in {mishaps, mishaps + 1}
  BY <1>3 DEF Revive, ReapWork, HourPasses, RemoveProject, Meter, Verdict, Flush, Forgotten, Begin, Unasked,
              MonthPasses, spendVars, Mishap
<1> QED
  BY <1>2, <1>3 DEF SpendNext, SpendBounded

\* The variables of Spending hold values of their types; nothing is billed that
\* is less than what was lost of it (quotas.py, metering.py).
THEOREM SpendTypeCorrect == SpendSpec => []SpendTypeOK
<1>1. SpendInit => KeysKnown /\ SpendBounded
  BY DEF SpendInit, KeysKnown, JobsKeyed, SpendBounded, NoWork, NoClick
<1>2. BudgetInv /\ KeysKnown /\ [SpendNext]_spendVars => KeysKnown'
  BY JobsKnown, ClicksKnown DEF BudgetInv, PlacesInv, KeysKnown
<1>3. BudgetInv /\ KeysKnown /\ SpendBounded => SpendTypeOK
  <2> SUFFICES ASSUME BudgetInv, KeysKnown, SpendBounded PROVE SpendTypeOK
    OBVIOUS
  <2>1. SpendTyped /\ billed - lost = ledger + Cardinality(Unflushed(attempts))
    BY DEF BudgetInv, PlacesInv
  <2>2. billed \in Nat
    BY <2>1, SpendSetsAreFinite DEF SpendTyped
  <2>3. \A n \in Jobs : works[n] \in WorkRow
    BY <2>1 DEF SpendTyped, WorksTyped
  <2>4. \A l \in Lanes : attempts[l] \in LaneRow
    BY <2>1 DEF SpendTyped, LanesTyped
  <2>5. \A c \in Clicks : clicks[c] \in ClickRow
    BY <2>1 DEF SpendTyped
  <2>6. \A n \in Jobs : works[n].tries \in 0 .. max_attempts /\ works[n].state \in {"none", "queued", "running", "ended"}
    BY <2>3 DEF WorkRow
  <2>7. \A l \in Lanes : attempts[l].meter \in {0, 1} /\ attempts[l].pc \in {"idle", "live", "flush"}
    BY <2>4 DEF LaneRow
  <2>8. \A c \in Clicks : clicks[c].pc \in {"idle", "wait", "count", "spend", "enqueue", "found", "create"}
    BY <2>5 DEF ClickRow
  <2>9. projects \in [Projects -> {"none", "new", "old", "deleted"}] /\ {ledger, billed, lost, unchecked, mishaps} \subseteq Nat
    BY <2>1, <2>2 DEF SpendTyped, ProjectsTyped, SpendBounded
  <2> QED
    BY <2>6, <2>7, <2>8, <2>9 DEF KeysKnown, JobsKeyed, SpendBounded, SpendTypeOK
<1> QED
  BY <1>1, <1>2, <1>3, BudgetInit, BudgetNext, SpendBoundedKeeps, PTL DEF SpendSpec
-----------------------------------------------------------------------------
\* The limits on signing in: LoginLimit.

\* A set of natural numbers has a least element.
LEMMA Least ==
  ASSUME NEW T, T \subseteq Nat, T # {}
  PROVE  \E x \in T : \A y \in T : x <= y
<1>1. IsWellFoundedOn(OpToRel(<, Nat), Nat)
  BY NatLessThanWellFounded
<1>2. PICK x \in T : \A y \in T : ~(<<y, x>> \in OpToRel(<, Nat))
  BY <1>1, WFMin
<1>3. \A y \in T : ~(y < x)
  BY <1>2 DEF OpToRel
<1> QED
  BY <1>3

Knock == [caller : Callers, at : Nat, allowed : BOOLEAN, good : BOOLEAN]

\* The attempts of the set K that a key's hits stand for: in their order, none
\* twice, and all of those that are within the window.
Recorded(h, K, window, ks, moment) ==
    \E m \in [DOMAIN h -> K] :
        /\ \A i, j \in DOMAIN h : i < j => m[i] < m[j]
        /\ \A i \in DOMAIN h : h[i] = ks[m[i]].at
        /\ \A j \in K : moment - ks[j].at <= window => \E i \in DOMAIN h : m[i] = j

Within(K, window, ks, moment) == {j \in K : moment - ks[j].at <= window}

Sorted(ks, moment) ==
    /\ ks \in Seq(Knock)
    /\ \A j \in DOMAIN ks : ks[j].at <= moment
    /\ \A i, j \in DOMAIN ks : i < j => ks[i].at <= ks[j].at

\* What a key's hits stand for while the clock runs and others knock.
LEMMA StillRecorded ==
  ASSUME NEW h, NEW ks, NEW K \in SUBSET DOMAIN ks, NEW window \in Nat, NEW moment \in Nat,
         Recorded(h, K, window, ks, moment), NEW ks2, NEW later \in Nat, moment <= later,
         \A j \in DOMAIN ks : ks2[j] = ks[j] /\ ks[j].at \in Nat
  PROVE  Recorded(h, K, window, ks2, later)
<1>1. PICK m \in [DOMAIN h -> K] :
        /\ \A i, j \in DOMAIN h : i < j => m[i] < m[j]
        /\ \A i \in DOMAIN h : h[i] = ks[m[i]].at
        /\ \A j \in K : moment - ks[j].at <= window => \E i \in DOMAIN h : m[i] = j
  BY DEF Recorded
<1>2. \A i \in DOMAIN h : h[i] = ks2[m[i]].at
  BY <1>1
<1>3. \A j \in K : later - ks2[j].at <= window => moment - ks[j].at <= window
  OBVIOUS
<1> QED
  BY <1>1, <1>2, <1>3 DEF Recorded

LEMMA NewlyRecorded ==
  ASSUME NEW moment \in Nat, NEW h \in Seq(0 .. moment), NEW ks \in Seq(Knock), NEW K \in SUBSET DOMAIN ks,
         NEW window \in Nat, Recorded(h, K, window, ks, moment), NEW x \in Knock, x.at = moment
  PROVE  Recorded(Append(h, moment), K \cup {Len(ks) + 1}, window, Append(ks, x), moment)
<1> DEFINE n == Len(ks) + 1
           g == Append(h, moment)
           ks2 == Append(ks, x)
<1>1. PICK m \in [DOMAIN h -> K] :
        /\ \A i, j \in DOMAIN h : i < j => m[i] < m[j]
        /\ \A i \in DOMAIN h : h[i] = ks[m[i]].at
        /\ \A j \in K : moment - ks[j].at <= window => \E i \in DOMAIN h : m[i] = j
  BY DEF Recorded
<1>2. /\ DOMAIN g = 1 .. Len(h) + 1 /\ DOMAIN h = 1 .. Len(h) /\ Len(h) \in Nat
      /\ g[Len(h) + 1] = moment /\ \A i \in DOMAIN h : g[i] = h[i]
  OBVIOUS
<1>3. /\ n \in Nat /\ ks2[n] = x /\ \A j \in DOMAIN ks : ks2[j] = ks[j] /\ j \in Nat /\ j < n
  OBVIOUS
<1> HIDE DEF n, g, ks2
<1> DEFINE m2 == [i \in DOMAIN g |-> IF i \in DOMAIN h THEN m[i] ELSE n]
<1>4. m2 \in [DOMAIN g -> K \cup {n}]
  OBVIOUS
<1>5. \A i, j \in DOMAIN g : i < j => m2[i] < m2[j]
  BY <1>1, <1>2, <1>3
<1>6. \A i \in DOMAIN g : g[i] = ks2[m2[i]].at
  <2>1. \A i \in DOMAIN h : g[i] = ks2[m2[i]].at
    BY <1>1, <1>2, <1>3
  <2>2. g[Len(h) + 1] = ks2[m2[Len(h) + 1]].at
    BY <1>2, <1>3
  <2>3. \A i \in DOMAIN g : i \in DOMAIN h \/ i = Len(h) + 1
    BY <1>2
  <2> QED
    BY <2>1, <2>2, <2>3
<1>7. ASSUME NEW j \in K \cup {n}, moment - ks2[j].at <= window
      PROVE  \E i \in DOMAIN g : m2[i] = j
  <2>1. CASE j = n
    <3>1. Len(h) + 1 \in DOMAIN g /\ Len(h) + 1 \notin DOMAIN h
      BY <1>2
    <3> QED
      BY <2>1, <3>1
  <2>2. CASE j \in K
    <3>1. PICK i \in DOMAIN h : m[i] = j
      BY <1>1, <1>3, <1>7, <2>2
    <3>2. i \in DOMAIN g
      BY <1>2
    <3> QED
      BY <3>1, <3>2
  <2> QED
    BY <2>1, <2>2
<1> HIDE DEF m2
<1>8. Recorded(g, K \cup {n}, window, ks2, moment)
  BY <1>4, <1>5, <1>6, <1>7 DEF Recorded
<1> QED
  BY <1>8 DEF g, n, ks2

LEMMA NothingRecorded ==
  ASSUME NEW window, NEW ks, NEW moment
  PROVE  Recorded(<<>>, {}, window, ks, moment)
<1> DEFINE m == [i \in {} |-> 0]
<1>1. m \in [{} -> {}] /\ DOMAIN <<>> = {}
  OBVIOUS
<1> QED
  BY <1>1 DEF Recorded

\* Pruned, a key's hits stand for exactly its attempts within the window.
LEMMA PrunedExactly ==
  ASSUME clock \in Nat, Sorted(knocks, clock), NEW h \in Seq(0 .. clock),
         NEW K \in SUBSET DOMAIN knocks, NEW window \in Nat,
         Recorded(h, K, window, knocks, clock)
  PROVE  /\ Prune(h, window) \in Seq(0 .. clock)
         /\ Recorded(Prune(h, window), K, window, knocks, clock)
         /\ Len(Prune(h, window)) = Cardinality(Within(K, window, knocks, clock))
<1> DEFINE n == Len(h)
           fresh == {k \in 1 .. n + 1 : k \in DOMAIN h => clock - h[k] <= window}
           first == Min(fresh)
           p == SubSeq(h, first, n)
           F == Within(K, window, knocks, clock)
<1>1. PICK m \in [DOMAIN h -> K] :
        /\ \A i, j \in DOMAIN h : i < j => m[i] < m[j]
        /\ \A i \in DOMAIN h : h[i] = knocks[m[i]].at
        /\ \A j \in K : clock - knocks[j].at <= window => \E i \in DOMAIN h : m[i] = j
  BY DEF Recorded
<1>2. n \in Nat /\ DOMAIN h = 1 .. n
  OBVIOUS
<1>3. \A j \in DOMAIN knocks : j \in Nat /\ knocks[j].at \in Nat
  <2>1. \A j \in DOMAIN knocks : j \in Nat /\ knocks[j] \in Knock
    BY DEF Sorted
  <2> QED
    BY <2>1 DEF Knock
<1>4. first \in fresh /\ \A k \in fresh : first <= k
  <2>1. fresh \subseteq Nat /\ n + 1 \in fresh
    BY <1>2
  <2> HIDE DEF fresh
  <2>2. \E x \in fresh : \A y \in fresh : x <= y
    BY <2>1, Least
  <2> QED
    BY <2>2 DEF Min
<1>5. first \in 1 .. n + 1
  BY <1>4
<1> HIDE DEF first
<1>6. /\ p \in Seq(0 .. clock) /\ Len(p) = n - first + 1 /\ DOMAIN p = 1 .. n - first + 1
      /\ \A i \in DOMAIN p : p[i] = h[first + i - 1] /\ first + i - 1 \in DOMAIN h
  <2> HIDE DEF fresh
  <2>1. Len(p) = n - first + 1 /\ DOMAIN p = 1 .. n - first + 1
    BY <1>2, <1>5
  <2>2. \A i \in 1 .. n - first + 1 : p[i] = h[first + i - 1] /\ first + i - 1 \in DOMAIN h
    BY <1>2, <1>5
  <2>3. p \in Seq(0 .. clock)
    BY <1>2, <1>5
  <2> QED
    BY <2>1, <2>2, <2>3
<1>7. Prune(h, window) = p
  BY DEF Prune, first
<1> HIDE DEF p, n
<1> DEFINE m2 == [i \in DOMAIN p |-> m[first + i - 1]]
<1>8. m2 \in [DOMAIN p -> K] /\ \A i \in DOMAIN p : p[i] = knocks[m2[i]].at
  BY <1>1, <1>6
<1>9. \A i, j \in DOMAIN p : i < j => m2[i] < m2[j]
  BY <1>1, <1>2, <1>5, <1>6
<1>10. \A j \in F : \E i \in DOMAIN p : m2[i] = j
  <2> SUFFICES ASSUME NEW j \in F PROVE \E i \in DOMAIN p : m2[i] = j
    OBVIOUS
  <2>1. PICK i \in DOMAIN h : m[i] = j
    BY <1>1 DEF Within
  <2>2. i \in fresh
    BY <1>1, <1>2, <2>1 DEF Within
  <2>3. first <= i
    BY <1>4, <2>2
  <2>4. i - first + 1 \in DOMAIN p /\ first + (i - first + 1) - 1 = i
    BY <1>2, <1>5, <1>6, <2>3
  <2> QED
    BY <2>1, <2>4
<1>11. \A i \in DOMAIN p : m2[i] \in F
  <2> SUFFICES ASSUME NEW i \in DOMAIN p PROVE m2[i] \in F
    OBVIOUS
  <2> DEFINE k == first + i - 1
  <2>1. k \in DOMAIN h /\ first \in DOMAIN h /\ first <= k /\ m2[i] = m[k]
    BY <1>2, <1>5, <1>6
  <2>2. clock - h[first] <= window
    BY <1>4, <2>1
  <2> HIDE DEF k
  <2>3. m[k] \in K /\ m[first] \in K /\ m[k] \in DOMAIN knocks /\ m[first] \in DOMAIN knocks
    BY <2>1
  <2>4. knocks[m[first]].at <= knocks[m[k]].at
    <3>1. first = k \/ m[first] < m[k]
      BY <1>1, <1>2, <1>5, <2>1
    <3> QED
      BY <1>3, <2>3, <3>1 DEF Sorted
  <2>5. knocks[m[k]].at \in Nat /\ knocks[m[first]].at \in Nat
    BY <1>3, <2>3
  <2>6. clock - knocks[m[k]].at <= window
    BY <1>1, <2>1, <2>2, <2>4, <2>5
  <2> QED
    BY <2>1, <2>3, <2>6 DEF Within
<1> HIDE DEF m2, F
<1>12. Recorded(p, K, window, knocks, clock)
  BY <1>8, <1>9, <1>10 DEF Recorded, F, Within
<1>13. Len(p) = Cardinality(F)
  <2>1. m2 \in Bijection(1 .. Len(p), F)
    <3>1. DOMAIN p = 1 .. Len(p) /\ Len(p) \in Nat
      BY <1>6
    <3>2. \A i, j \in 1 .. Len(p) : m2[i] = m2[j] => i = j
      <4> SUFFICES ASSUME NEW i \in 1 .. Len(p), NEW j \in 1 .. Len(p), i # j PROVE m2[i] # m2[j]
        OBVIOUS
      <4>1. m2[i] \in K /\ m2[j] \in K /\ m2[i] \in Nat /\ m2[j] \in Nat
        BY <1>8, <1>3, <3>1
      <4>2. i < j \/ j < i
        OBVIOUS
      <4>3. m2[i] < m2[j] \/ m2[j] < m2[i]
        BY <1>9, <3>1, <4>2
      <4> QED
        BY <4>1, <4>3
    <3> QED
      BY <1>8, <1>10, <1>11, <3>1, <3>2 DEF Bijection, Injection, Surjection, IsInjective
  <2>2. IsFiniteSet(1 .. Len(p)) /\ Cardinality(1 .. Len(p)) = Len(p)
    <3>1. Len(p) \in Int /\ Len(p) >= 0 /\ 1 \in Int
      BY <1>2, <1>5, <1>6
    <3> HIDE DEF p
    <3>2. IsFiniteSet(1 .. Len(p)) /\ Cardinality(1 .. Len(p)) = IF 1 > Len(p) THEN 0 ELSE Len(p) - 1 + 1
      BY <3>1, FS_Interval
    <3> QED
      BY <3>1, <3>2
  <2> QED
    BY <2>1, <2>2, FS_Bijection DEF ExistsBijection
<1> QED
  BY <1>6, <1>7, <1>12, <1>13 DEF F

-----------------------------------------------------------------------------
\* The attempts that count against an address, and those that count against a
\* name from an address: the allowed ones since its last good one.
OfAddress(ip) == {j \in DOMAIN knocks : knocks[j].allowed /\ knocks[j].caller.ip = ip}

OfName(caller) ==
    {j \in DOMAIN knocks :
        /\ knocks[j].allowed /\ knocks[j].caller = caller
        /\ \A i \in j .. Len(knocks) : knocks[i].caller = caller => ~knocks[i].good}

LimitInv ==
    /\ clock \in Nat /\ Sorted(knocks, clock)
    /\ ip_hits \in [Addresses -> Seq(0 .. clock)] /\ user_hits \in [Callers -> Seq(0 .. clock)]
    /\ \A ip \in Addresses : Recorded(ip_hits[ip], OfAddress(ip), IP_WINDOW_SEC, knocks, clock)
    /\ \A caller \in Callers : Recorded(user_hits[caller], OfName(caller), USER_WINDOW_SEC, knocks, clock)
    /\ LimitIsExact

\* Sweeping leaves every key with hits that stand for the same attempts.
LEMMA SweptRecorded ==
  ASSUME clock \in Nat, Sorted(knocks, clock), NEW Held, NEW table \in [Held -> Seq(0 .. clock)],
         NEW window \in Nat, NEW of, \A key \in Held : of[key] \subseteq DOMAIN knocks,
         \A key \in Held : Recorded(table[key], of[key], window, knocks, clock)
  PROVE  /\ Swept(table, window) \in [Held -> Seq(0 .. clock)]
         /\ \A key \in Held : Recorded(Swept(table, window)[key], of[key], window, knocks, clock)
<1>1. \A key \in Held : /\ Prune(table[key], window) \in Seq(0 .. clock)
                        /\ Recorded(Prune(table[key], window), of[key], window, knocks, clock)
  <2> SUFFICES ASSUME NEW key \in Held
               PROVE  /\ Prune(table[key], window) \in Seq(0 .. clock)
                      /\ Recorded(Prune(table[key], window), of[key], window, knocks, clock)
    OBVIOUS
  <2> DEFINE h == table[key]
             K == of[key]
  <2>1. h \in Seq(0 .. clock) /\ K \in SUBSET DOMAIN knocks /\ Recorded(h, K, window, knocks, clock)
    OBVIOUS
  <2> HIDE DEF h, K
  <2>2. /\ Prune(h, window) \in Seq(0 .. clock)
        /\ Recorded(Prune(h, window), K, window, knocks, clock)
    BY <2>1, PrunedExactly
  <2> QED
    BY <2>2 DEF h, K
<1> QED
  BY <1>1 DEF Swept

LEMMA LimitInitially == LimitInit => LimitInv
<1> SUFFICES ASSUME LimitInit PROVE LimitInv
  OBVIOUS
<1>1. clock = 0 /\ knocks = <<>> /\ DOMAIN knocks = {}
  BY DEF LimitInit
<1>2. Sorted(knocks, clock)
  BY <1>1 DEF Sorted
<1>3. \A ip : OfAddress(ip) = {}
  BY <1>1 DEF OfAddress
<1>4. \A caller : OfName(caller) = {}
  BY <1>1 DEF OfName
<1>5. \A ip \in Addresses : Recorded(ip_hits[ip], OfAddress(ip), IP_WINDOW_SEC, knocks, clock)
  BY <1>3, NothingRecorded DEF LimitInit
<1>6. \A caller \in Callers : Recorded(user_hits[caller], OfName(caller), USER_WINDOW_SEC, knocks, clock)
  BY <1>4, NothingRecorded DEF LimitInit
<1>7. LimitIsExact
  BY <1>1 DEF LimitIsExact
<1>8. ip_hits \in [Addresses -> Seq(0 .. clock)] /\ user_hits \in [Callers -> Seq(0 .. clock)]
  BY DEF LimitInit
<1> QED
  BY <1>1, <1>2, <1>5, <1>6, <1>7, <1>8 DEF LimitInv

\* An attempt is told from those before it alone.
LEMMA EarlierVerdicts ==
  ASSUME LimitInv, NEW x \in Knock, knocks' = Append(knocks, x), NEW k \in DOMAIN knocks
  PROVE  /\ knocks'[k] = knocks[k] /\ ByAddress(k)' = ByAddress(k) /\ ByName(k)' = ByName(k)
<1>1. /\ knocks \in Seq(Knock) /\ DOMAIN knocks = 1 .. Len(knocks) /\ Len(knocks) \in Nat
      /\ k \in 1 .. Len(knocks)
  BY DEF LimitInv, Sorted
<1>2. \A j \in 1 .. k : knocks'[j] = knocks[j]
  BY <1>1
<1>3. \A j \in 1 .. k - 1 : j \in 1 .. k /\ \A i \in j .. k - 1 : i \in 1 .. k
  BY <1>1
<1>4. k \in 1 .. k
  BY <1>1
<1>5. Before(k)' = Before(k)
  BY <1>2, <1>3 DEF Before
<1>6. \A j \in Before(k) : j \in 1 .. k - 1
  BY DEF Before
<1> QED
  BY <1>2, <1>3, <1>4, <1>5, <1>6 DEF ByAddress, ByName

LEMMA OneMore ==
  ASSUME NEW A, NEW B, NEW D, NEW n, A \subseteq D \cup {n}, B \subseteq D, n \notin D,
         \A j \in D : j \in A <=> j \in B
  PROVE  /\ n \in A => A = B \cup {n}
         /\ n \notin A => A = B
  OBVIOUS

\* What one more attempt or success changes in what the hits stand for.
LEMMA Noting ==
  ASSUME LimitInv, NEW x \in Knock, x.at = clock, knocks' = Append(knocks, x), clock' = clock,
         NEW n \in Nat, n = Len(knocks) + 1
  PROVE  /\ Sorted(knocks', clock')
         /\ \A ip \in Addresses :
               OfAddress(ip)' = IF x.allowed /\ ip = x.caller.ip THEN OfAddress(ip) \cup {n} ELSE OfAddress(ip)
         /\ \A c \in Callers :
               OfName(c)' = IF c = x.caller /\ x.good THEN {}
                            ELSE IF c = x.caller /\ x.allowed THEN OfName(c) \cup {n} ELSE OfName(c)
         /\ \A ip \in Addresses : \A h : Recorded(h, OfAddress(ip), IP_WINDOW_SEC, knocks, clock)
                                      => Recorded(h, OfAddress(ip), IP_WINDOW_SEC, knocks', clock)
         /\ \A c \in Callers : \A h : Recorded(h, OfName(c), USER_WINDOW_SEC, knocks, clock)
                                   => Recorded(h, OfName(c), USER_WINDOW_SEC, knocks', clock)
         /\ \/ x.good
            \/ x.allowed <=>
                  /\ Cardinality(Within(OfAddress(x.caller.ip), IP_WINDOW_SEC, knocks, clock)) < IP_MAX_ATTEMPTS
                  /\ Cardinality(Within(OfName(x.caller), USER_WINDOW_SEC, knocks, clock)) < USER_MAX_ATTEMPTS
            => LimitIsExact'
<1>1. /\ clock \in Nat /\ Sorted(knocks, clock) /\ knocks \in Seq(Knock)
      /\ IP_WINDOW_SEC \in Nat /\ USER_WINDOW_SEC \in Nat
  BY LimitAssumption DEF LimitInv, Sorted
<1>2. /\ DOMAIN knocks = 1 .. n - 1 /\ Len(knocks') = n /\ DOMAIN knocks' = 1 .. n
      /\ knocks' \in Seq(Knock) /\ knocks'[n] = x
      /\ \A j \in DOMAIN knocks : /\ knocks'[j] = knocks[j] /\ j \in Nat /\ j < n
                                  /\ knocks[j] \in Knock /\ knocks[j].at \in Nat /\ knocks[j].at <= clock
  <2>1. knocks' \in Seq(Knock) /\ Len(knocks') = n /\ knocks'[n] = x
    BY <1>1
  <2>2. \A j \in DOMAIN knocks : /\ knocks'[j] = knocks[j] /\ j \in Nat /\ j < n /\ knocks[j] \in Knock
    BY <1>1
  <2>3. \A j \in DOMAIN knocks : knocks[j].at \in Nat /\ knocks[j].at <= clock
    BY <1>1, <2>2 DEF Knock, Sorted
  <2> QED
    BY <1>1, <2>1, <2>2, <2>3
<1>3. Sorted(knocks', clock')
  <2>1. \A j \in DOMAIN knocks' : j = n \/ j \in DOMAIN knocks
    BY <1>2
  <2>2. \A i, j \in DOMAIN knocks' : i < j => i \in DOMAIN knocks
    BY <1>2
  <2>3. \A i, j \in DOMAIN knocks : i < j => knocks'[i].at <= knocks'[j].at
    BY <1>1, <1>2 DEF Sorted
  <2> QED
    BY <1>1, <1>2, <2>1, <2>2, <2>3 DEF Sorted
<1>4. ASSUME NEW ip \in Addresses
      PROVE  OfAddress(ip)' = IF x.allowed /\ ip = x.caller.ip THEN OfAddress(ip) \cup {n} ELSE OfAddress(ip)
  <2>1. \A j \in DOMAIN knocks : (j \in OfAddress(ip)') <=> j \in OfAddress(ip)
    BY <1>2 DEF OfAddress
  <2>2. (n \in OfAddress(ip)') <=> x.allowed /\ ip = x.caller.ip
    BY <1>2 DEF OfAddress
  <2>3. DOMAIN knocks' = DOMAIN knocks \cup {n} /\ n \notin DOMAIN knocks
    BY <1>2
  <2>4. OfAddress(ip)' \subseteq DOMAIN knocks \cup {n} /\ OfAddress(ip) \subseteq DOMAIN knocks
    BY <2>3 DEF OfAddress
  <2>5. /\ n \in OfAddress(ip)' => OfAddress(ip)' = OfAddress(ip) \cup {n}
        /\ n \notin OfAddress(ip)' => OfAddress(ip)' = OfAddress(ip)
    BY <2>1, <2>3, <2>4, OneMore
  <2> QED
    BY <2>2, <2>5
<1>5. ASSUME NEW c \in Callers
      PROVE  OfName(c)' = IF c = x.caller /\ x.good THEN {}
                          ELSE IF c = x.caller /\ x.allowed THEN OfName(c) \cup {n} ELSE OfName(c)
  <2>1. /\ DOMAIN knocks' = DOMAIN knocks \cup {n} /\ n \notin DOMAIN knocks /\ n .. n = {n}
        /\ Len(knocks) = n - 1
    BY <1>1, <1>2
  <2>2. ASSUME NEW j \in DOMAIN knocks
        PROVE  (j \in OfName(c)') <=> j \in OfName(c) /\ ~(c = x.caller /\ x.good)
    <3>1. (\A i \in j .. n : knocks'[i].caller = c => ~knocks'[i].good)
             <=> /\ \A i \in j .. n - 1 : knocks[i].caller = c => ~knocks[i].good
                 /\ ~(c = x.caller /\ x.good)
      <4>1. j .. n = (j .. n - 1) \cup {n} /\ \A i \in j .. n - 1 : i \in DOMAIN knocks
        BY <1>2
      <4>2. \A i \in j .. n - 1 : knocks'[i] = knocks[i]
        BY <1>2, <4>1
      <4> QED
        BY <1>2, <4>1, <4>2
    <3> QED
      BY <1>2, <2>1, <3>1 DEF OfName
  <2>3. (n \in OfName(c)') <=> c = x.caller /\ x.allowed /\ ~x.good
    BY <1>2, <2>1 DEF OfName
  <2>4. OfName(c)' \subseteq DOMAIN knocks \cup {n} /\ OfName(c) \subseteq DOMAIN knocks
    BY <2>1 DEF OfName
  <2>5. CASE c = x.caller /\ x.good
    <3>1. n \notin OfName(c)' /\ \A j \in DOMAIN knocks : j \notin OfName(c)'
      BY <2>2, <2>3, <2>5
    <3> QED
      BY <2>4, <2>5, <3>1
  <2>6. CASE ~(c = x.caller /\ x.good)
    <3>1. /\ n \in OfName(c)' => OfName(c)' = OfName(c) \cup {n}
          /\ n \notin OfName(c)' => OfName(c)' = OfName(c)
      BY <2>1, <2>2, <2>4, <2>6, OneMore
    <3> QED
      BY <2>3, <2>6, <3>1
  <2> QED
    BY <2>5, <2>6
<1>6. ASSUME NEW ip \in Addresses, NEW h, Recorded(h, OfAddress(ip), IP_WINDOW_SEC, knocks, clock)
      PROVE  Recorded(h, OfAddress(ip), IP_WINDOW_SEC, knocks', clock)
  <2>1. OfAddress(ip) \in SUBSET DOMAIN knocks
    BY DEF OfAddress
  <2>2. clock <= clock /\ \A j \in DOMAIN knocks : knocks'[j] = knocks[j] /\ knocks[j].at \in Nat
    BY <1>1, <1>2
  <2> QED
    BY <1>1, <1>6, <2>1, <2>2, StillRecorded, Zenon
<1>7. ASSUME NEW c \in Callers, NEW h, Recorded(h, OfName(c), USER_WINDOW_SEC, knocks, clock)
      PROVE  Recorded(h, OfName(c), USER_WINDOW_SEC, knocks', clock)
  <2>1. OfName(c) \in SUBSET DOMAIN knocks
    BY DEF OfName
  <2>2. clock <= clock /\ \A j \in DOMAIN knocks : knocks'[j] = knocks[j] /\ knocks[j].at \in Nat
    BY <1>1, <1>2
  <2> QED
    BY <1>1, <1>7, <2>1, <2>2, StillRecorded, Zenon
<1>8. /\ ByAddress(n)' = Within(OfAddress(x.caller.ip), IP_WINDOW_SEC, knocks, clock)
      /\ ByName(n)' = Within(OfName(x.caller), USER_WINDOW_SEC, knocks, clock)
  <2>1. Before(n)' = {j \in DOMAIN knocks : knocks[j].allowed}
    BY <1>2 DEF Before
  <2>2. \A j \in DOMAIN knocks : \A i \in j .. n - 1 : i \in DOMAIN knocks
    BY <1>2
  <2>3. Len(knocks) = n - 1
    BY <1>1
  <2> QED
    BY <1>2, <2>1, <2>2, <2>3 DEF ByAddress, ByName, OfAddress, OfName, Within
<1>9. ASSUME \/ x.good
             \/ x.allowed <=>
                   /\ Cardinality(Within(OfAddress(x.caller.ip), IP_WINDOW_SEC, knocks, clock)) < IP_MAX_ATTEMPTS
                   /\ Cardinality(Within(OfName(x.caller), USER_WINDOW_SEC, knocks, clock)) < USER_MAX_ATTEMPTS
      PROVE  LimitIsExact'
  <2>1. \A k \in DOMAIN knocks : knocks'[k] = knocks[k] /\ ByAddress(k)' = ByAddress(k) /\ ByName(k)' = ByName(k)
    BY EarlierVerdicts
  <2>2. \A k \in DOMAIN knocks' : k = n \/ k \in DOMAIN knocks
    BY <1>2
  <2>3. \/ knocks'[n].good
        \/ knocks'[n].allowed <=> /\ Cardinality(ByAddress(n)') < IP_MAX_ATTEMPTS
                                 /\ Cardinality(ByName(n)') < USER_MAX_ATTEMPTS
    BY <1>2, <1>8, <1>9
  <2> QED
    BY <2>1, <2>2, <2>3 DEF LimitIsExact, LimitInv
<1> QED
  BY <1>3, <1>4, <1>5, <1>6, <1>7, <1>9

LEMMA SignInKeeps ==
  ASSUME LimitInv, NEW caller \in Callers, SignIn(caller)
  PROVE  LimitInv'
<1> SUFFICES ASSUME NEW n \in Nat, n = Len(knocks) + 1 PROVE LimitInv'
  BY DEF LimitInv, Sorted
<1> DEFINE by_ip == Swept(ip_hits, IP_WINDOW_SEC)
           by_user == Swept(user_hits, USER_WINDOW_SEC)
           of_ip == Prune(by_ip[caller.ip], IP_WINDOW_SEC)
           of_user == Prune(by_user[caller], USER_WINDOW_SEC)
           ip_full == Len(of_ip) >= IP_MAX_ATTEMPTS
           allowed == ~ip_full /\ Len(of_user) < USER_MAX_ATTEMPTS
           x == [caller |-> caller, at |-> clock, allowed |-> allowed, good |-> FALSE]
<1>1. /\ ip_hits' = [by_ip EXCEPT ![caller.ip] = IF allowed THEN Append(of_ip, clock) ELSE of_ip]
      /\ user_hits' = [by_user EXCEPT ![caller] =
                            IF ip_full THEN @
                            ELSE IF allowed THEN Append(of_user, clock) ELSE of_user]
      /\ knocks' = Append(knocks, x) /\ clock' = clock
  BY DEF SignIn, Noted
<1>2. /\ clock \in Nat /\ Sorted(knocks, clock) /\ knocks \in Seq(Knock) /\ caller.ip \in Addresses
      /\ IP_WINDOW_SEC \in Nat /\ USER_WINDOW_SEC \in Nat
      /\ IP_MAX_ATTEMPTS \in Nat /\ USER_MAX_ATTEMPTS \in Nat
  BY LimitAssumption DEF LimitInv, Sorted, Addresses
<1>3. /\ by_ip \in [Addresses -> Seq(0 .. clock)]
      /\ \A ip \in Addresses : Recorded(by_ip[ip], OfAddress(ip), IP_WINDOW_SEC, knocks, clock)
  <2> DEFINE of == [ip \in Addresses |-> OfAddress(ip)]
  <2>1. \A ip \in Addresses : of[ip] = OfAddress(ip) /\ of[ip] \subseteq DOMAIN knocks
    BY DEF OfAddress
  <2> HIDE DEF of
  <2>2. /\ by_ip \in [Addresses -> Seq(0 .. clock)]
        /\ \A ip \in Addresses : Recorded(by_ip[ip], of[ip], IP_WINDOW_SEC, knocks, clock)
    <3>1. /\ ip_hits \in [Addresses -> Seq(0 .. clock)]
          /\ \A ip \in Addresses : Recorded(ip_hits[ip], of[ip], IP_WINDOW_SEC, knocks, clock)
      BY <2>1 DEF LimitInv
    <3> QED
      BY <1>2, <2>1, <3>1, SweptRecorded
  <2> QED
    BY <2>1, <2>2
<1>4. /\ by_user \in [Callers -> Seq(0 .. clock)]
      /\ \A c \in Callers : Recorded(by_user[c], OfName(c), USER_WINDOW_SEC, knocks, clock)
  <2> DEFINE of == [c \in Callers |-> OfName(c)]
  <2>1. \A c \in Callers : of[c] = OfName(c) /\ of[c] \subseteq DOMAIN knocks
    BY DEF OfName
  <2> HIDE DEF of
  <2>2. /\ by_user \in [Callers -> Seq(0 .. clock)]
        /\ \A c \in Callers : Recorded(by_user[c], of[c], USER_WINDOW_SEC, knocks, clock)
    <3>1. /\ user_hits \in [Callers -> Seq(0 .. clock)]
          /\ \A c \in Callers : Recorded(user_hits[c], of[c], USER_WINDOW_SEC, knocks, clock)
      BY <2>1 DEF LimitInv
    <3> QED
      BY <1>2, <2>1, <3>1, SweptRecorded
  <2> QED
    BY <2>1, <2>2
<1> HIDE DEF by_ip, by_user
<1> DEFINE KA == OfAddress(caller.ip)
           KN == OfName(caller)
<1>5. KA \in SUBSET DOMAIN knocks /\ KN \in SUBSET DOMAIN knocks
  BY DEF OfAddress, OfName
<1>6. /\ of_ip \in Seq(0 .. clock) /\ Recorded(of_ip, KA, IP_WINDOW_SEC, knocks, clock)
      /\ Len(of_ip) = Cardinality(Within(KA, IP_WINDOW_SEC, knocks, clock))
  <2> DEFINE h == by_ip[caller.ip]
  <2>1. h \in Seq(0 .. clock) /\ Recorded(h, KA, IP_WINDOW_SEC, knocks, clock)
    BY <1>2, <1>3
  <2> HIDE DEF h, KA
  <2>2. /\ Prune(h, IP_WINDOW_SEC) \in Seq(0 .. clock)
        /\ Recorded(Prune(h, IP_WINDOW_SEC), KA, IP_WINDOW_SEC, knocks, clock)
        /\ Len(Prune(h, IP_WINDOW_SEC)) = Cardinality(Within(KA, IP_WINDOW_SEC, knocks, clock))
    BY <1>2, <1>5, <2>1, PrunedExactly
  <2> QED
    BY <2>2 DEF h
<1>7. /\ of_user \in Seq(0 .. clock) /\ Recorded(of_user, KN, USER_WINDOW_SEC, knocks, clock)
      /\ Len(of_user) = Cardinality(Within(KN, USER_WINDOW_SEC, knocks, clock))
  <2> DEFINE h == by_user[caller]
  <2>1. h \in Seq(0 .. clock) /\ Recorded(h, KN, USER_WINDOW_SEC, knocks, clock)
    BY <1>2, <1>4
  <2> HIDE DEF h, KN
  <2>2. /\ Prune(h, USER_WINDOW_SEC) \in Seq(0 .. clock)
        /\ Recorded(Prune(h, USER_WINDOW_SEC), KN, USER_WINDOW_SEC, knocks, clock)
        /\ Len(Prune(h, USER_WINDOW_SEC)) = Cardinality(Within(KN, USER_WINDOW_SEC, knocks, clock))
    BY <1>2, <1>5, <2>1, PrunedExactly
  <2> QED
    BY <2>2 DEF h
<1> HIDE DEF of_ip, of_user
<1>8. /\ Len(of_ip) \in Nat /\ Len(of_user) \in Nat /\ allowed \in BOOLEAN /\ ip_full \in BOOLEAN
      /\ allowed <=> Len(of_ip) < IP_MAX_ATTEMPTS /\ Len(of_user) < USER_MAX_ATTEMPTS
      /\ ip_full => ~allowed
  BY <1>2, <1>6, <1>7
<1> HIDE DEF allowed, ip_full
<1>9. x \in Knock /\ x.caller = caller /\ x.at = clock /\ x.allowed = allowed /\ ~x.good
  BY <1>2, <1>8 DEF Knock
<1> HIDE DEF x
<1>10. /\ Sorted(knocks', clock')
       /\ \A ip \in Addresses :
             OfAddress(ip)' = IF allowed /\ ip = caller.ip THEN OfAddress(ip) \cup {n} ELSE OfAddress(ip)
       /\ \A c \in Callers : OfName(c)' = IF c = caller /\ allowed THEN OfName(c) \cup {n} ELSE OfName(c)
       /\ \A ip \in Addresses : \A h : Recorded(h, OfAddress(ip), IP_WINDOW_SEC, knocks, clock)
                                    => Recorded(h, OfAddress(ip), IP_WINDOW_SEC, knocks', clock)
       /\ \A c \in Callers : \A h : Recorded(h, OfName(c), USER_WINDOW_SEC, knocks, clock)
                                 => Recorded(h, OfName(c), USER_WINDOW_SEC, knocks', clock)
  BY <1>1, <1>9, Noting
<1>11. LimitIsExact'
  <2>1. x.allowed <=> /\ Cardinality(Within(OfAddress(x.caller.ip), IP_WINDOW_SEC, knocks, clock)) < IP_MAX_ATTEMPTS
                      /\ Cardinality(Within(OfName(x.caller), USER_WINDOW_SEC, knocks, clock)) < USER_MAX_ATTEMPTS
    BY <1>6, <1>7, <1>8, <1>9
  <2> QED
    BY <1>1, <1>9, <2>1, Noting
<1>12. ASSUME NEW ip \in Addresses
       PROVE  Recorded(ip_hits'[ip], OfAddress(ip)', IP_WINDOW_SEC, knocks', clock')
  <2>1. CASE ip # caller.ip
    BY <1>1, <1>3, <1>10, <2>1
  <2>2. CASE ip = caller.ip /\ ~allowed
    BY <1>1, <1>3, <1>6, <1>10, <2>2
  <2>3. CASE ip = caller.ip /\ allowed
    <3>1. Recorded(Append(of_ip, clock), KA \cup {n}, IP_WINDOW_SEC, Append(knocks, x), clock)
      BY <1>2, <1>5, <1>6, <1>9, NewlyRecorded
    <3> QED
      BY <1>1, <1>3, <1>10, <2>3, <3>1
  <2> QED
    BY <2>1, <2>2, <2>3
<1>13. ASSUME NEW c \in Callers
       PROVE  Recorded(user_hits'[c], OfName(c)', USER_WINDOW_SEC, knocks', clock')
  <2>1. CASE c # caller
    BY <1>1, <1>4, <1>10, <2>1
  <2>2. CASE c = caller /\ ip_full
    BY <1>1, <1>4, <1>8, <1>10, <2>2
  <2>3. CASE c = caller /\ ~ip_full /\ ~allowed
    BY <1>1, <1>4, <1>7, <1>10, <2>3
  <2>4. CASE c = caller /\ ~ip_full /\ allowed
    <3>1. Recorded(Append(of_user, clock), KN \cup {n}, USER_WINDOW_SEC, Append(knocks, x), clock)
      BY <1>2, <1>5, <1>7, <1>9, NewlyRecorded
    <3> QED
      BY <1>1, <1>4, <1>10, <2>4, <3>1
  <2> QED
    BY <2>1, <2>2, <2>3, <2>4
<1>14. ip_hits' \in [Addresses -> Seq(0 .. clock')] /\ user_hits' \in [Callers -> Seq(0 .. clock')]
  <2>1. Append(of_ip, clock) \in Seq(0 .. clock) /\ Append(of_user, clock) \in Seq(0 .. clock)
    BY <1>2, <1>6, <1>7
  <2> HIDE DEF by_ip, by_user
  <2>3. ip_hits' \in [Addresses -> Seq(0 .. clock)]
    BY <1>1, <1>3, <1>6, <2>1
  <2>4. user_hits' \in [Callers -> Seq(0 .. clock)]
    <3>1. \E h \in Seq(0 .. clock) : user_hits' = [by_user EXCEPT ![caller] = h]
      BY <1>1, <1>4, <1>7, <2>1
    <3> QED
      BY <1>4, <3>1
  <2> QED
    BY <1>1, <2>3, <2>4
<1> QED
  BY <1>1, <1>2, <1>10, <1>11, <1>12, <1>13, <1>14 DEF LimitInv

\* A success takes the hits of its name, and what they stand for with them.
LEMMA SucceededKeeps ==
  ASSUME LimitInv, NEW caller \in Callers, Succeeded(caller)
  PROVE  LimitInv'
<1> SUFFICES ASSUME NEW n \in Nat, n = Len(knocks) + 1 PROVE LimitInv'
  BY DEF LimitInv, Sorted
<1> DEFINE x == [caller |-> caller, at |-> clock, allowed |-> FALSE, good |-> TRUE]
<1>1. /\ user_hits' = [user_hits EXCEPT ![caller] = <<>>]
      /\ knocks' = Append(knocks, x) /\ UNCHANGED <<clock, ip_hits>>
  BY DEF Succeeded, Noted
<1>2. /\ clock \in Nat /\ ip_hits \in [Addresses -> Seq(0 .. clock)]
      /\ user_hits \in [Callers -> Seq(0 .. clock)]
  BY DEF LimitInv
<1>3. x \in Knock /\ x.caller = caller /\ x.at = clock /\ ~x.allowed /\ x.good
  BY <1>2 DEF Knock
<1> HIDE DEF x
<1>4. /\ Sorted(knocks', clock') /\ LimitIsExact'
      /\ \A ip \in Addresses : OfAddress(ip)' = OfAddress(ip)
      /\ \A c \in Callers : OfName(c)' = IF c = caller THEN {} ELSE OfName(c)
      /\ \A ip \in Addresses : \A h : Recorded(h, OfAddress(ip), IP_WINDOW_SEC, knocks, clock)
                                   => Recorded(h, OfAddress(ip), IP_WINDOW_SEC, knocks', clock)
      /\ \A c \in Callers : \A h : Recorded(h, OfName(c), USER_WINDOW_SEC, knocks, clock)
                                => Recorded(h, OfName(c), USER_WINDOW_SEC, knocks', clock)
  BY <1>1, <1>3, Noting
<1>5. \A ip \in Addresses : Recorded(ip_hits'[ip], OfAddress(ip)', IP_WINDOW_SEC, knocks', clock')
  BY <1>1, <1>4 DEF LimitInv
<1>6. ASSUME NEW c \in Callers
      PROVE  Recorded(user_hits'[c], OfName(c)', USER_WINDOW_SEC, knocks', clock')
  <2>1. CASE c = caller
    <3>1. user_hits'[c] = <<>> /\ OfName(c)' = {}
      BY <1>1, <1>2, <1>4, <2>1
    <3> QED
      BY <3>1, NothingRecorded
  <2>2. CASE c # caller
    <3>1. user_hits'[c] = user_hits[c] /\ OfName(c)' = OfName(c)
      BY <1>1, <1>2, <1>4, <2>2
    <3> QED
      BY <1>1, <1>4, <3>1 DEF LimitInv
  <2> QED
    BY <2>1, <2>2
<1>7. ip_hits' \in [Addresses -> Seq(0 .. clock')] /\ user_hits' \in [Callers -> Seq(0 .. clock')]
  <2>1. <<>> \in Seq(0 .. clock)
    OBVIOUS
  <2> QED
    BY <1>1, <1>2, <2>1
<1> QED
  BY <1>1, <1>2, <1>4, <1>5, <1>6, <1>7 DEF LimitInv

LEMMA TimePassesKeeps ==
  ASSUME LimitInv, TimePasses
  PROVE  LimitInv'
<1>1. clock' = clock + 1 /\ clock \in Nat /\ clock' \in Nat /\ UNCHANGED <<ip_hits, user_hits, knocks>>
  BY DEF TimePasses, LimitInv
<1>2. \A j \in DOMAIN knocks : knocks[j].at \in Nat /\ knocks[j].at <= clock
  <2>1. \A j \in DOMAIN knocks : knocks[j] \in Knock /\ knocks[j].at <= clock
    BY DEF LimitInv, Sorted
  <2> QED
    BY <2>1 DEF Knock
<1>3. Sorted(knocks', clock')
  BY <1>1, <1>2 DEF LimitInv, Sorted
<1>4. LimitIsExact'
  BY <1>1 DEF LimitInv, LimitIsExact, ByAddress, ByName, Before
<1>5. \A ip \in Addresses : Recorded(ip_hits[ip], OfAddress(ip), IP_WINDOW_SEC, knocks, clock')
  <2> SUFFICES ASSUME NEW ip \in Addresses
               PROVE  Recorded(ip_hits[ip], OfAddress(ip), IP_WINDOW_SEC, knocks, clock')
    OBVIOUS
  <2>1. OfAddress(ip) \in SUBSET DOMAIN knocks
    BY DEF OfAddress
  <2>2. Recorded(ip_hits[ip], OfAddress(ip), IP_WINDOW_SEC, knocks, clock)
    BY DEF LimitInv
  <2> QED
    BY <1>1, <1>2, <2>1, <2>2, LimitAssumption, StillRecorded
<1>6. \A c \in Callers : Recorded(user_hits[c], OfName(c), USER_WINDOW_SEC, knocks, clock')
  <2> SUFFICES ASSUME NEW c \in Callers
               PROVE  Recorded(user_hits[c], OfName(c), USER_WINDOW_SEC, knocks, clock')
    OBVIOUS
  <2>1. OfName(c) \in SUBSET DOMAIN knocks
    BY DEF OfName
  <2>2. Recorded(user_hits[c], OfName(c), USER_WINDOW_SEC, knocks, clock)
    BY DEF LimitInv
  <2> QED
    BY <1>1, <1>2, <2>1, <2>2, LimitAssumption, StillRecorded
<1>7. ip_hits \in [Addresses -> Seq(0 .. clock')] /\ user_hits \in [Callers -> Seq(0 .. clock')]
  <2>1. \A h \in Seq(0 .. clock) : h \in Seq(0 .. clock')
    BY <1>1
  <2> QED
    BY <2>1 DEF LimitInv
<1>8. (\A ip : OfAddress(ip)' = OfAddress(ip)) /\ (\A c : OfName(c)' = OfName(c))
  BY <1>1 DEF OfAddress, OfName
<1> QED
  BY <1>1, <1>3, <1>4, <1>5, <1>6, <1>7, <1>8 DEF LimitInv

LEMMA LimitNextKeeps == LimitInv /\ [LimitNext]_limitVars => LimitInv'
<1>1. LimitInv /\ UNCHANGED <<clock, ip_hits, user_hits, knocks>> => LimitInv'
  BY DEF LimitInv, OfAddress, OfName, LimitIsExact, ByAddress, ByName, Before
<1>2. \A caller : Turned(caller) => UNCHANGED <<clock, ip_hits, user_hits, knocks>>
  BY DEF Turned
<1>3. UNCHANGED limitVars => UNCHANGED <<clock, ip_hits, user_hits, knocks>>
  BY DEF limitVars
<1> QED
  BY <1>1, <1>2, <1>3, SignInKeeps, SucceededKeeps, TimePassesKeeps DEF LimitNext

\* No more passwords are being checked than attempts were made.
LimitBounded ==
    /\ last_sweep \in 0 .. clock /\ Len(knocks) <= Knocks
    /\ checking \in [Callers -> Nat] /\ \A c \in Callers : checking[c] <= Len(knocks)

LEMMA LimitBoundedKeeps ==
  ASSUME LimitInv, LimitBounded, [LimitNext]_limitVars
  PROVE  LimitBounded'
<1>1. clock \in Nat /\ Len(knocks) \in Nat /\ knocks \in Seq(Knock) /\ Knocks \in Nat
  BY LimitAssumption DEF LimitInv, Sorted
<1>2. ASSUME NEW x, knocks' = Append(knocks, x) PROVE Len(knocks') = Len(knocks) + 1
  BY <1>1, <1>2
<1>3. ASSUME NEW c \in Callers, SignIn(c) PROVE LimitBounded'
  <2>1. /\ clock' = clock /\ last_sweep' \in {last_sweep, clock} /\ Len(knocks) < Knocks
        /\ checking' = checking \/ checking' = [checking EXCEPT ![c] = @ + 1]
    BY <1>3 DEF SignIn
  <2>2. Len(knocks') = Len(knocks) + 1
    BY <1>2, <1>3 DEF SignIn, Noted
  <2> QED
    BY <1>1, <2>1, <2>2 DEF LimitBounded
<1>4. ASSUME NEW c \in Callers, Turned(c) PROVE LimitBounded'
  BY <1>1, <1>4 DEF Turned, LimitBounded
<1>5. ASSUME NEW c \in Callers, Succeeded(c) PROVE LimitBounded'
  <2>1. /\ UNCHANGED <<clock, last_sweep>> /\ Len(knocks) < Knocks /\ checking[c] > 0
        /\ checking' = [checking EXCEPT ![c] = @ - 1]
    BY <1>5 DEF Succeeded
  <2>2. Len(knocks') = Len(knocks) + 1
    BY <1>2, <1>5 DEF Succeeded, Noted
  <2> QED
    BY <1>1, <2>1, <2>2 DEF LimitBounded
<1>6. CASE TimePasses
  BY <1>1, <1>6 DEF TimePasses, LimitBounded
<1>7. CASE UNCHANGED limitVars
  BY <1>7 DEF limitVars, LimitBounded
<1> QED
  BY <1>3, <1>4, <1>5, <1>6, <1>7 DEF LimitNext

\* The variables of LoginLimit hold values of their types: no hit and no sweep
\* is later than now (_prune, _sweep, login_allowed).
THEOREM LimitTypeCorrect == LimitSpec => []LimitTypeOK
<1>1. LimitInit => LimitBounded
  BY LimitAssumption DEF LimitInit, LimitBounded
<1>2. LimitInv /\ LimitBounded => LimitTypeOK
  <2> SUFFICES ASSUME LimitInv, LimitBounded PROVE LimitTypeOK
    OBVIOUS
  <2>1. Len(knocks) \in Nat /\ Knocks \in Nat
    BY LimitAssumption DEF LimitInv, Sorted
  <2>2. checking \in [Callers -> 0 .. Knocks]
    BY <2>1 DEF LimitBounded
  <2> QED
    BY <2>2 DEF LimitInv, LimitBounded, LimitTypeOK
<1>3. LimitInv /\ LimitBounded /\ [LimitNext]_limitVars => LimitBounded'
  BY LimitBoundedKeeps
<1> QED
  BY <1>1, <1>2, <1>3, LimitInitially, LimitNextKeeps, PTL DEF LimitSpec

\* An attempt is let through exactly when fewer than the limit were let through
\* within the window, from its address and, since a sign-in of its name last
\* succeeded, for its name, for any limits and windows and however attempts and
\* successes interleave (login_allowed, login_succeeded, _sweep).
THEOREM LimitsAreExact == LimitSpec => []LimitIsExact
<1>1. LimitInv => LimitIsExact
  BY DEF LimitInv
<1> QED
  BY <1>1, LimitInitially, LimitNextKeeps, PTL DEF LimitSpec
-----------------------------------------------------------------------------
\* A deployment: its migrations and the reports of its workers.

ApiState == [pc : {"off", "waiting", "judging", "upgrading", "serving", "out"},
             seen : {"unknown", "ready", "behind", "ahead"}]

BoxState == [pc : {"off", "waiting", "up", "draining", "leaving", "left", "dead"},
             last : None .. Rounds, round : None .. Rounds]

\* The lock has one holder, which is the instance that judges or upgrades.
OneMigrates ==
    /\ migrating = {a \in Apis : apis[a].pc \in {"judging", "upgrading"}}
    /\ \A a, b \in migrating : a = b

\* Nothing was upgraded since the instance that upgrades has judged.
StillBehind == \A a \in Apis : apis[a].pc = "upgrading" => revision < CodeOf[a]

\* A row is of a round its worker began, and so is a round still on its way.
RowsAreOfRounds ==
    /\ \A b \in Boxes : /\ worker_heartbeats[b] <= boxes[b].last
                        /\ boxes[b].round <= boxes[b].last
    /\ worker_report.at # None =>
          /\ worker_report.by \in Boxes
          /\ worker_report.at <= boxes[worker_report.by].last

\* A worker that left has no round on its way.
LeftIsSilent ==
    \A b \in Boxes : boxes[b].pc = "left" => worker_heartbeats[b] = None /\ boxes[b].round = None

SchemaInv == OneMigrates /\ StillBehind /\ SchemaIsMet

ReportInv == RowsAreOfRounds /\ LeftIsSilent

FleetInv == FleetTypeOK /\ SchemaInv /\ ReportInv
-----------------------------------------------------------------------------
LEMMA Numbers ==
  /\ {STALE_SEC, FORGET_SEC, Rounds, Upsets} \subseteq Nat
  /\ None \in Int /\ None = -1 /\ None \in None .. Rounds
  /\ \A p \in Apis \cup Boxes : CodeOf[p] \in Nat
<1>1. Rounds \in Nat /\ None = -1
  BY FleetAssumption DEF None
<1>2. None \in Int /\ None \in None .. Rounds
  BY <1>1
<1> QED
  BY <1>1, <1>2, FleetAssumption

LEMMA Types ==
  ASSUME FleetTypeOK
  PROVE  /\ revision \in Nat /\ migrating \subseteq Apis
         /\ apis \in [Apis -> ApiState] /\ boxes \in [Boxes -> BoxState]
         /\ worker_heartbeats \in [Boxes -> None .. Rounds]
         /\ worker_report \in [at : None .. Rounds, by : Boxes \cup {"nobody"}]
         /\ now \in 0 .. Rounds /\ upsets \in 0 .. Upsets
  BY DEF FleetTypeOK, ApiState, BoxState

LEMMA FleetBegins == FleetInit => FleetInv
<1> SUFFICES ASSUME FleetInit PROVE FleetInv
  OBVIOUS
<1>1. FleetTypeOK
  <2>1. revision \in Nat
    BY Numbers DEF FleetInit
  <2>2. /\ apis \in [Apis -> ApiState] /\ boxes \in [Boxes -> BoxState]
        /\ worker_heartbeats \in [Boxes -> None .. Rounds]
        /\ worker_report \in [at : None .. Rounds, by : Boxes \cup {"nobody"}]
    BY Numbers DEF FleetInit, ApiState, BoxState
  <2>3. now \in 0 .. Rounds /\ upsets \in 0 .. Upsets
    <3>1. now = 0 /\ upsets = 0 /\ Rounds \in Nat /\ Upsets \in Nat
      BY Numbers DEF FleetInit
    <3> QED
      BY <3>1
  <2> QED
    BY <2>1, <2>2, <2>3 DEF FleetInit, FleetTypeOK, ApiState, BoxState
<1>2. SchemaInv
  BY DEF FleetInit, SchemaInv, OneMigrates, StillBehind, SchemaIsMet
<1>3. ReportInv
  BY Numbers DEF FleetInit, ReportInv, RowsAreOfRounds, LeftIsSilent
<1> QED
  BY <1>1, <1>2, <1>3 DEF FleetInv
-----------------------------------------------------------------------------
(* The migrations. *)

LEMMA UpsetKeeps == FleetTypeOK /\ Upset => upsets' \in 0 .. Upsets
<1>1. Upsets \in Nat
  BY Numbers
<1> QED
  BY <1>1 DEF FleetTypeOK, Upset

LEMMA ApiTypes ==
  ASSUME FleetTypeOK, NEW a \in Apis,
         \/ StartApi(a) \/ TakeLock(a) \/ GiveUpLock(a)
         \/ Judge(a) \/ Upgrade(a) \/ ApiDies(a)
  PROVE  FleetTypeOK'
<1>1. UNCHANGED reportVars
  BY DEF StartApi, TakeLock, GiveUpLock, Judge, Upgrade, ApiDies
<1>2. upsets' \in 0 .. Upsets
  BY Types, UpsetKeeps DEF StartApi, TakeLock, GiveUpLock, Judge, Upgrade, ApiDies
<1>3. revision' \in Nat /\ migrating' \subseteq Apis
  BY Types, Numbers DEF StartApi, TakeLock, GiveUpLock, Judge, Upgrade, ApiDies
<1>4. apis' \in [Apis -> ApiState]
  <2>1. apis[a] \in ApiState
    BY Types
  <2>2. schema_state(CodeOf[a]) \in {"ready", "behind", "ahead"}
    BY DEF schema_state
  <2> QED
    BY <2>1, <2>2, Types
    DEF StartApi, TakeLock, GiveUpLock, Judge, Judged, Upgrade, ApiDies, Api, ApiState
<1> QED
  BY <1>1, <1>2, <1>3, <1>4 DEF reportVars, FleetTypeOK, ApiState

\* What the other instances do, when instance a moves to another place.
LEMMA Others ==
  ASSUME FleetTypeOK, NEW a \in Apis, NEW s \in ApiState, apis' = [apis EXCEPT ![a] = s]
  PROVE  apis'[a] = s /\ \A b \in Apis : b # a => apis'[b] = apis[b]
  BY Types

LEMMA ApiKeeps ==
  ASSUME FleetTypeOK, SchemaInv, NEW a \in Apis,
         \/ StartApi(a) \/ TakeLock(a) \/ GiveUpLock(a)
         \/ Judge(a) \/ Upgrade(a) \/ ApiDies(a)
  PROVE  SchemaInv'
<1>1. /\ revision \in Nat /\ CodeOf[a] \in Nat /\ apis[a] \in ApiState
      /\ \A p \in Apis \cup Boxes : CodeOf[p] \in Nat
      /\ boxes' = boxes
  BY Types, Numbers DEF StartApi, TakeLock, GiveUpLock, Judge, Upgrade, ApiDies, reportVars
<1>2. CASE StartApi(a) \/ GiveUpLock(a)
  <2>1. /\ apis[a].pc \in {"off", "waiting"} /\ apis'[a].pc \in {"off", "waiting"}
        /\ \A b \in Apis : b # a => apis'[b] = apis[b]
        /\ UNCHANGED <<revision, migrating, upgraded>>
    BY <1>1, <1>2, Types DEF StartApi, GiveUpLock, Api, ApiState, schema_state
  <2> QED
    BY <1>1, <2>1 DEF SchemaInv, OneMigrates, StillBehind, SchemaIsMet
<1>3. CASE TakeLock(a)
  <2>1. /\ migrating = {} /\ migrating' = {a} /\ apis'[a].pc = "judging"
        /\ \A b \in Apis : b # a => apis'[b] = apis[b]
        /\ UNCHANGED <<revision, upgraded>>
    BY <1>1, <1>3, Types DEF TakeLock, Api, ApiState
  <2> QED
    BY <1>1, <2>1 DEF SchemaInv, OneMigrates, StillBehind, SchemaIsMet
<1>4. CASE Judge(a)
  <2>1. /\ apis[a].pc = "judging"
        /\ apis'[a].pc = IF Judged(a) = "behind" THEN "upgrading" ELSE "serving"
        /\ \A b \in Apis : b # a => apis'[b] = apis[b]
        /\ migrating' = IF Judged(a) = "behind" THEN migrating ELSE migrating \ {a}
        /\ UNCHANGED <<revision, upgraded>>
    BY <1>1, <1>4, Types DEF Judge, ApiState
  <2>2. Judged(a) = "behind" <=> revision < CodeOf[a]
    BY <1>1 DEF Judged, schema_state
  <2>3. OneMigrates'
    BY <2>1 DEF SchemaInv, OneMigrates
  <2> QED
    BY <1>1, <2>1, <2>2, <2>3 DEF SchemaInv, StillBehind, SchemaIsMet
<1>5. CASE Upgrade(a)
  <2>1. apis[a].pc = "upgrading" /\ revision < CodeOf[a] /\ migrating = {a}
    BY <1>5 DEF Upgrade, SchemaInv, StillBehind, OneMigrates
  <2>2. ~(revision > CodeOf[a])
    BY <1>1, <2>1
  <2>3. /\ apis'[a].pc = "serving" /\ revision' = CodeOf[a]
        /\ \A b \in Apis : b # a => apis'[b] = apis[b]
        /\ migrating' = {}
        /\ upgraded' = upgraded \cup {[code |-> CodeOf[a], from |-> revision]}
    BY <1>1, <1>5, <2>1, <2>2, Types DEF Upgrade, Api, ApiState
  <2>4. OneMigrates' /\ StillBehind'
    BY <2>1, <2>3 DEF SchemaInv, OneMigrates, StillBehind
  <2>5. \A b \in Apis : apis'[b].pc = "serving" => CodeOf[b] <= revision'
    BY <1>1, <2>1, <2>3 DEF SchemaInv, SchemaIsMet
  <2>6. \A b \in Boxes : boxes'[b].pc = "up" => CodeOf[b] <= revision'
    BY <1>1, <2>1, <2>3 DEF SchemaInv, SchemaIsMet
  <2>7. \A u \in upgraded' : u.from < u.code
    BY <2>1, <2>3 DEF SchemaInv, SchemaIsMet
  <2> QED
    BY <2>4, <2>5, <2>6, <2>7 DEF SchemaInv, SchemaIsMet
<1>6. CASE ApiDies(a)
  <2>1. /\ apis'[a].pc = "off" /\ migrating' = migrating \ {a}
        /\ \A b \in Apis : b # a => apis'[b] = apis[b]
        /\ UNCHANGED <<revision, upgraded>>
    BY <1>1, <1>6, Types DEF ApiDies, Api, ApiState
  <2> QED
    BY <1>1, <2>1 DEF SchemaInv, OneMigrates, StillBehind, SchemaIsMet
<1> QED
  BY <1>2, <1>3, <1>4, <1>5, <1>6
-----------------------------------------------------------------------------
(* The workers and their reports. *)

BoxStep(b) ==
    \/ StartBox(b) \/ BeginsClaiming(b) \/ BeginRound(b) \/ WriteRound(b) \/ LoseRound(b)
    \/ TermBox(b) \/ DrainBox(b) \/ SignOff(b) \/ SignOffLate(b) \/ BoxDies(b)

LEMMA BoxTypes ==
  ASSUME FleetTypeOK, NEW b \in Boxes, BoxStep(b)
  PROVE  FleetTypeOK'
<1>1. UNCHANGED <<schemaVars, now>>
  BY DEF BoxStep, StartBox, BeginsClaiming, BeginRound, WriteRound, LoseRound, TermBox, DrainBox,
         SignOff, SignOffLate, BoxDies
<1>2. upsets' \in 0 .. Upsets
  BY Types, UpsetKeeps
  DEF BoxStep, StartBox, BeginsClaiming, BeginRound, WriteRound, LoseRound, TermBox, DrainBox,
      SignOff, SignOffLate, BoxDies
<1>3. /\ boxes[b] \in BoxState /\ now \in None .. Rounds /\ None \in None .. Rounds
      /\ boxes[b].round \in None .. Rounds
  <2>1. now \in 0 .. Rounds /\ None = -1 /\ Rounds \in Nat
    BY Types, Numbers
  <2>2. now \in None .. Rounds
    BY <2>1
  <2> QED
    BY <2>2, Types, Numbers DEF BoxState
<1>4. boxes' \in [Boxes -> BoxState]
  BY <1>3, Types
  DEF BoxStep, StartBox, BeginsClaiming, BeginRound, WriteRound, LoseRound, TermBox, DrainBox,
      SignOff, SignOffLate, BoxDies, Box, BoxState
<1>5. worker_heartbeats' \in [Boxes -> None .. Rounds]
  BY <1>3, Types
  DEF BoxStep, StartBox, BeginsClaiming, BeginRound, WriteRound, LoseRound, TermBox, DrainBox,
      SignOff, SignOffLate, BoxDies
<1>6. worker_report' \in [at : None .. Rounds, by : Boxes \cup {"nobody"}]
  BY <1>3, Types
  DEF BoxStep, StartBox, BeginsClaiming, BeginRound, WriteRound, LoseRound, TermBox, DrainBox,
      SignOff, SignOffLate, BoxDies
<1> QED
  BY <1>1, <1>2, <1>4, <1>5, <1>6 DEF FleetTypeOK, BoxState, schemaVars

\* A worker serves only once the schema is its own or newer.
LEMMA BoxKeepsSchema ==
  ASSUME FleetTypeOK, SchemaInv, NEW b \in Boxes, BoxStep(b)
  PROVE  SchemaInv'
<1>1. UNCHANGED schemaVars
  BY DEF BoxStep, StartBox, BeginsClaiming, BeginRound, WriteRound, LoseRound, TermBox, DrainBox,
         SignOff, SignOffLate, BoxDies
<1>2. boxes \in [Boxes -> BoxState]
  BY Types
<1>3. \A c \in Boxes : c # b => boxes'[c] = boxes[c]
  BY <1>2
  DEF BoxStep, StartBox, BeginsClaiming, BeginRound, WriteRound, LoseRound, TermBox, DrainBox,
      SignOff, SignOffLate, BoxDies, Box
<1>5. boxes'[b].pc = "up" => boxes[b].pc = "up" \/ BeginsClaiming(b)
  <2>1. boxes[b] \in BoxState
    BY <1>2
  <2>2. CASE BeginRound(b) \/ WriteRound(b) \/ LoseRound(b)
    BY <1>2, <2>1, <2>2 DEF BeginRound, WriteRound, LoseRound, BoxState
  <2>3. CASE StartBox(b) \/ TermBox(b) \/ DrainBox(b) \/ SignOff(b) \/ SignOffLate(b) \/ BoxDies(b)
    BY <1>2, <2>1, <2>3 DEF StartBox, TermBox, DrainBox, SignOff, SignOffLate, BoxDies, Box, BoxState
  <2> QED
    BY <2>2, <2>3 DEF BoxStep
<1>4. BeginsClaiming(b) => CodeOf[b] <= revision
  <2>1. revision \in Nat /\ CodeOf[b] \in Nat
    BY Types, Numbers
  <2> QED
    BY <2>1 DEF BeginsClaiming, schema_state
<1> QED
  BY <1>1, <1>3, <1>4, <1>5 DEF schemaVars, SchemaInv, OneMigrates, StillBehind, SchemaIsMet

\* What of the reports a step of worker b that writes nothing may change.
LEMMA QuietKeeps ==
  ASSUME FleetTypeOK, ReportInv, NEW b \in Boxes, NEW s \in BoxState,
         boxes' = [boxes EXCEPT ![b] = s],
         s.last >= boxes[b].last, s.round <= s.last,
         s.pc = "left" => worker_heartbeats[b] = None /\ s.round = None,
         UNCHANGED <<worker_heartbeats, worker_report>>
  PROVE  ReportInv'
<1>1. /\ boxes'[b] = s /\ \A c \in Boxes : c # b => boxes'[c] = boxes[c]
  BY Types
<1>2. /\ worker_heartbeats[b] \in Int /\ worker_report.at \in Int
      /\ s.last \in Int /\ boxes[b].last \in Int
  BY Types, Numbers DEF BoxState
<1>3. RowsAreOfRounds'
  BY <1>1, <1>2 DEF ReportInv, RowsAreOfRounds
<1>4. LeftIsSilent'
  BY <1>1 DEF ReportInv, LeftIsSilent
<1> QED
  BY <1>3, <1>4 DEF ReportInv

LEMMA BoxKeepsReports ==
  ASSUME FleetTypeOK, ReportInv, NEW b \in Boxes, BoxStep(b)
  PROVE  ReportInv'
<1>1. /\ boxes[b] \in BoxState /\ None \in Int /\ None = -1 /\ now \in Nat
      /\ boxes[b].last \in Int /\ boxes[b].round \in Int /\ boxes[b].last >= None
      /\ boxes[b].round <= boxes[b].last
      /\ now \in None .. Rounds /\ None \in None .. Rounds
  BY Types, Numbers DEF BoxState, ReportInv, RowsAreOfRounds
<1>2. CASE \/ StartBox(b) \/ BeginsClaiming(b) \/ TermBox(b) \/ DrainBox(b)
           \/ SignOffLate(b) \/ BoxDies(b)
  <2>1. PICK pc \in {"waiting", "up", "draining", "leaving", "dead"} :
            boxes' = [boxes EXCEPT ![b].pc = pc]
    BY <1>2 DEF StartBox, BeginsClaiming, TermBox, DrainBox, SignOffLate, BoxDies, Box
  <2> DEFINE s == [boxes[b] EXCEPT !.pc = pc]
  <2>2. /\ boxes' = [boxes EXCEPT ![b] = s] /\ s \in BoxState
        /\ s.pc # "left" /\ s.last = boxes[b].last /\ s.round = boxes[b].round
    BY <1>1, <2>1 DEF BoxState
  <2>3. UNCHANGED <<worker_heartbeats, worker_report>>
    BY <1>2 DEF StartBox, BeginsClaiming, TermBox, DrainBox, SignOffLate, BoxDies
  <2> HIDE DEF s
  <2>4. s.last >= boxes[b].last /\ s.round <= s.last
    BY <1>1, <2>2
  <2> QED
    BY <2>2, <2>3, <2>4, QuietKeeps
<1>3. CASE BeginRound(b)
  <2> DEFINE s == [boxes[b] EXCEPT !.round = now, !.last = now]
  <2>1. /\ boxes' = [boxes EXCEPT ![b] = s] /\ s \in BoxState
        /\ s.pc = "up" /\ s.last = now /\ s.round = now
        /\ boxes[b].last < now /\ UNCHANGED <<worker_heartbeats, worker_report>>
    BY <1>1, <1>3 DEF BeginRound, BoxState
  <2> HIDE DEF s
  <2>2. s.last >= boxes[b].last /\ s.round <= s.last
    BY <1>1, <2>1
  <2>3. s.pc # "left" /\ UNCHANGED <<worker_heartbeats, worker_report>>
    BY <2>1
  <2> QED
    BY <2>1, <2>2, <2>3, QuietKeeps
<1>4. CASE LoseRound(b)
  <2> DEFINE s == [boxes[b] EXCEPT !.round = None]
  <2>1. /\ boxes' = [boxes EXCEPT ![b] = s] /\ s \in BoxState
        /\ s.pc = boxes[b].pc /\ s.last = boxes[b].last /\ s.round = None
        /\ boxes[b].round # None /\ UNCHANGED <<worker_heartbeats, worker_report>>
    BY <1>1, <1>4 DEF LoseRound, BoxState
  <2>2. s.pc # "left"
    BY <2>1 DEF ReportInv, LeftIsSilent
  <2> HIDE DEF s
  <2>3. s.last >= boxes[b].last /\ s.round <= s.last
    BY <1>1, <2>1
  <2> QED
    BY <2>1, <2>2, <2>3, QuietKeeps
<1>5. CASE WriteRound(b)
  <2>1. /\ boxes'[b].round = None /\ boxes'[b].last = boxes[b].last /\ boxes'[b].pc = boxes[b].pc
        /\ \A c \in Boxes : c # b => boxes'[c] = boxes[c]
        /\ boxes[b].round # None
    BY <1>1, <1>5, Types DEF WriteRound, BoxState
  <2>2. /\ worker_heartbeats'[b] = boxes[b].round
        /\ \A c \in Boxes : c # b => worker_heartbeats'[c] = worker_heartbeats[c]
    BY <1>5, Types DEF WriteRound
  <2>3. \/ worker_report' = worker_report
        \/ worker_report'.at = boxes[b].round /\ worker_report'.by = b
    BY <1>5 DEF WriteRound
  <2>4. boxes[b].pc # "left"
    BY <2>1 DEF ReportInv, LeftIsSilent
  <2>5. \A c \in Boxes : boxes'[c].last = boxes[c].last
    BY <2>1
  <2>6. \A c \in Boxes : worker_heartbeats'[c] <= boxes'[c].last /\ boxes'[c].round <= boxes'[c].last
    BY <1>1, <2>1, <2>2 DEF ReportInv, RowsAreOfRounds
  <2>7. worker_report'.at # None =>
            worker_report'.by \in Boxes /\ worker_report'.at <= boxes'[worker_report'.by].last
    BY <1>1, <2>3, <2>5 DEF ReportInv, RowsAreOfRounds
  <2>8. LeftIsSilent'
    BY <2>1, <2>2, <2>4 DEF ReportInv, LeftIsSilent
  <2> QED
    BY <2>6, <2>7, <2>8 DEF ReportInv, RowsAreOfRounds
<1>6. CASE SignOff(b)
  <2>1. /\ boxes'[b].round = None /\ boxes'[b].last = boxes[b].last /\ boxes'[b].pc = "left"
        /\ \A c \in Boxes : c # b => boxes'[c] = boxes[c]
        /\ worker_heartbeats'[b] = None /\ worker_report' = worker_report
        /\ \A c \in Boxes : c # b => worker_heartbeats'[c] = worker_heartbeats[c]
    BY <1>1, <1>6, Types DEF SignOff, MayForget, Box, BoxState
  <2>2. \A c \in Boxes : boxes'[c].last = boxes[c].last
    BY <2>1
  <2> QED
    BY <1>1, <2>1, <2>2 DEF ReportInv, RowsAreOfRounds, LeftIsSilent
<1> QED
  BY <1>2, <1>3, <1>4, <1>5, <1>6 DEF BoxStep
-----------------------------------------------------------------------------
LEMMA PurgeKeeps == FleetInv /\ PurgeRows => FleetInv'
<1> SUFFICES ASSUME FleetInv, PurgeRows PROVE FleetInv'
  OBVIOUS
<1>1. FleetTypeOK /\ UNCHANGED <<schemaVars, boxes, worker_report, now, upsets>>
  BY DEF FleetInv, PurgeRows
<1>2. PICK old \in SUBSET Boxes :
          worker_heartbeats' = [b \in Boxes |-> IF b \in old THEN None ELSE worker_heartbeats[b]]
  BY DEF PurgeRows
<1>3. FleetTypeOK'
  <2>1. worker_heartbeats' \in [Boxes -> None .. Rounds]
    BY <1>1, <1>2, Types, Numbers
  <2> QED
    BY <1>1, <2>1 DEF FleetTypeOK, schemaVars
<1>4. SchemaInv'
  BY <1>1 DEF FleetInv, SchemaInv, OneMigrates, StillBehind, SchemaIsMet, schemaVars
<1>5. \A b \in Boxes : boxes[b].last >= None
  BY <1>1, Types, Numbers DEF BoxState
<1>6. ReportInv'
  BY <1>1, <1>2, <1>5 DEF FleetInv, ReportInv, RowsAreOfRounds, LeftIsSilent
<1> QED
  BY <1>3, <1>4, <1>6 DEF FleetInv

LEMMA TimeKeeps == FleetInv /\ RoundPasses => FleetInv'
<1> SUFFICES ASSUME FleetInv, RoundPasses PROVE FleetInv'
  OBVIOUS
<1>1. now' \in 0 .. Rounds
  <2>1. Rounds \in Nat /\ now \in 0 .. Rounds
    BY Types, Numbers DEF FleetInv
  <2> QED
    BY <2>1 DEF RoundPasses
<1>2. UNCHANGED <<schemaVars, boxes, worker_heartbeats, worker_report, upsets>>
  BY DEF RoundPasses
<1> QED
  BY <1>1, <1>2 DEF FleetInv, FleetTypeOK, schemaVars, SchemaInv, OneMigrates, StillBehind, SchemaIsMet,
                    ReportInv, RowsAreOfRounds, LeftIsSilent

LEMMA FleetKeeps == FleetInv /\ [FleetNext]_fleetVars => FleetInv'
<1> SUFFICES ASSUME FleetInv, [FleetNext]_fleetVars PROVE FleetInv'
  OBVIOUS
<1>1. ASSUME NEW a \in Apis,
             \/ StartApi(a) \/ TakeLock(a) \/ GiveUpLock(a)
             \/ Judge(a) \/ Upgrade(a) \/ ApiDies(a)
      PROVE  FleetInv'
  <2>1. FleetTypeOK' /\ SchemaInv'
    BY <1>1, ApiTypes, ApiKeeps DEF FleetInv
  <2>2. UNCHANGED reportVars
    BY <1>1 DEF StartApi, TakeLock, GiveUpLock, Judge, Upgrade, ApiDies
  <2>3. ReportInv'
    BY <2>2 DEF FleetInv, reportVars, ReportInv, RowsAreOfRounds, LeftIsSilent
  <2> QED
    BY <2>1, <2>3 DEF FleetInv
<1>2. ASSUME NEW b \in Boxes, BoxStep(b) PROVE FleetInv'
  BY <1>2, BoxTypes, BoxKeepsSchema, BoxKeepsReports DEF FleetInv
<1>3. CASE PurgeRows
  BY <1>3, PurgeKeeps
<1>4. CASE RoundPasses
  BY <1>4, TimeKeeps
<1>5. CASE UNCHANGED fleetVars
  BY <1>5 DEF fleetVars, FleetInv, FleetTypeOK, SchemaInv, OneMigrates, StillBehind, SchemaIsMet,
              ReportInv, RowsAreOfRounds, LeftIsSilent
<1> QED
  BY <1>1, <1>2, <1>3, <1>4, <1>5 DEF FleetNext, BoxStep

\* Every variable of the deployment holds a value of its type.
THEOREM FleetTypeCorrect == FleetSpec => []FleetTypeOK
<1>1. FleetInv => FleetTypeOK
  BY DEF FleetInv
<1> QED
  BY <1>1, FleetBegins, FleetKeeps, PTL DEF FleetSpec

\* No instance serves and no worker claims on a schema older than its code, and
\* an upgrade is only run on an older one (upgrade_to_head, _wait_for_schema).
THEOREM SchemaMet == FleetSpec => []SchemaIsMet
<1>1. FleetInv => SchemaIsMet
  BY DEF FleetInv, SchemaInv
<1> QED
  BY <1>1, FleetBegins, FleetKeeps, PTL DEF FleetSpec

\* The row of a worker that signed off does not come back (_sign_off).
THEOREM GoneIsGone == FleetSpec => []LeftIsGone
<1>1. FleetInv => LeftIsGone
  BY DEF FleetInv, ReportInv, LeftIsSilent, LeftIsGone
<1> QED
  BY <1>1, FleetBegins, FleetKeeps, PTL DEF FleetSpec

\* Only a worker that began a round within STALE_SEC makes the page say that
\* work will be picked up (WorkerLiveness.read).
THEOREM RecentReports == FleetSpec => []ReportedIsRecent
<1>1. FleetInv => ReportedIsRecent
  <2> SUFFICES ASSUME FleetInv, reported
               PROVE  \E b \in Boxes : boxes[b].last # None /\ now - boxes[b].last < STALE_SEC
    BY DEF ReportedIsRecent
  <2>1. PICK b \in Boxes, at \in 0 .. Rounds : now - at < STALE_SEC /\ at <= boxes[b].last
    <3>0. \A at \in None .. Rounds : at # None => at \in 0 .. Rounds
      BY Numbers
    <3>1. CASE alive # {}
      <4>1. PICK b \in Boxes : live(worker_heartbeats[b])
        BY <3>1 DEF alive
      <4>2. worker_heartbeats[b] \in None .. Rounds /\ worker_heartbeats[b] <= boxes[b].last
        BY Types DEF FleetInv, ReportInv, RowsAreOfRounds
      <4> QED
        BY <3>0, <4>1, <4>2 DEF live
    <3>2. CASE live(worker_report.at)
      <4>1. /\ worker_report.at \in None .. Rounds
            /\ worker_report.by \in Boxes /\ worker_report.at <= boxes[worker_report.by].last
        BY <3>2, Types DEF FleetInv, ReportInv, RowsAreOfRounds, live
      <4> QED
        BY <3>0, <3>2, <4>1 DEF live
    <3> QED
      BY <3>1, <3>2 DEF reported
  <2>2. boxes[b].last \in Int /\ now \in Int /\ STALE_SEC \in Nat /\ None = -1
    BY Types, Numbers DEF FleetInv, BoxState
  <2> QED
    BY <2>1, <2>2
<1> QED
  BY <1>1, FleetBegins, FleetKeeps, PTL DEF FleetSpec

\* What the export page says of removing the source speech is not changed by
\* the round of a worker that does not render (beat, separation).
THEOREM RendererWords == FleetSpec => RenderersAnswer
<1>1. FleetInv /\ [FleetNext]_fleetVars =>
        [(\E b \in Boxes \ Heavy : WriteRound(b)) => separation' = separation]_fleetVars
  <2> SUFFICES ASSUME FleetInv, NEW b \in Boxes \ Heavy, WriteRound(b)
               PROVE  separation' = separation
    OBVIOUS
  <2>1. worker_report' = worker_report /\ now' = now
    BY DEF WriteRound, SpeaksInTheOldRow
  <2>2. \A c \in Boxes : c # b => worker_heartbeats'[c] = worker_heartbeats[c]
    BY Types DEF FleetInv, WriteRound
  <2>3. alive' \cap Heavy = alive \cap Heavy
    BY <2>1, <2>2 DEF alive, live
  <2> QED
    BY <2>1, <2>3 DEF separation
<1> QED
  BY <1>1, FleetBegins, FleetKeeps, PTL DEF FleetSpec, RenderersAnswer
-----------------------------------------------------------------------------

Processes == Instances \cup Readers

Process == [step : {"down", "starting", "sealing", "serving", "applying"},
            list : Variables \cup {<<>>}, saw : Setting, wants : Secrets \cup {""}]

\* The row is there when a key was entered and not taken back, and holds it.
StoredIsGiven ==
    /\ stored = NoSetting <=> given = ""
    /\ stored # NoSetting => stored.secret = given

\* What an instance is about to seal is the row, locked since it was read.
SealsWhatIsStored ==
    \A p \in Instances :
        running[p].step = "sealing" /\ running[p].saw # NoSetting
            => rowlock = p /\ running[p].saw = stored

KeysInv == KeysTypeOK /\ StoredIsGiven /\ SealsWhatIsStored
-----------------------------------------------------------------------------
\* A process is a record whose fields may be replaced one by one.
LEMMA ProcessFields ==
  ASSUME KeysTypeOK, NEW p \in Processes
  PROVE  /\ running[p] \in Process
         /\ running[p].list \in Seq(Nat \ {0})
         /\ running[p].saw \in Setting
         /\ running[p].wants \in Secrets \cup {""}
<1>1. running[p] \in Process
  BY DEF KeysTypeOK, Process, Processes
<1>2. <<>> \in Seq(Nat \ {0})
  OBVIOUS
<1> QED
  BY <1>1, <1>2, KeysAssumption DEF Process

LEMMA ASetting == NoSetting \in Setting /\ Down \in Process
  BY DEF NoSetting, Setting, Down, Process

\* Sealing keeps the secret, and what is sealed is a row.
LEMMA Sealed ==
  ASSUME NEW list \in Seq(Nat \ {0}), NEW secret \in Secrets
  PROVE  /\ seal(list, secret) \in Setting
         /\ seal(list, secret) # NoSetting
         /\ seal(list, secret).secret = secret
<1>1. list = <<>> \/ Head(list) \in Nat
  OBVIOUS
<1>2. Plain \in Nat
  BY DEF Plain
<1>3. secret # ""
  BY KeysAssumption
<1> QED
  BY <1>1, <1>2, <1>3 DEF seal, Setting, NoSetting

LEMMA ARow ==
  ASSUME NEW row \in Setting, row # NoSetting
  PROVE  row.secret \in Secrets
  BY DEF Setting

LEMMA Bounded == 0 \in 0 .. Entries /\ \A e \in 0 .. Entries : e < Entries => e + 1 \in 0 .. Entries
<1>1. Entries \in Nat
  BY KeysAssumption
<1> QED
  BY <1>1

LEMMA KeysInitially == KeysInit => KeysInv
<1> SUFFICES ASSUME KeysInit PROVE KeysInv
  OBVIOUS
<1>1. KeysTypeOK
  <2>1. running \in [Instances \cup Readers -> Process]
    BY ASetting DEF KeysInit
  <2>2. entries \in 0 .. Entries
    BY Bounded DEF KeysInit
  <2>3. stored \in Setting
    BY ASetting DEF KeysInit
  <2> QED
    BY <2>1, <2>2, <2>3 DEF KeysInit, KeysTypeOK, Process
<1>2. StoredIsGiven
  BY DEF KeysInit, StoredIsGiven
<1>3. SealsWhatIsStored
  BY DEF KeysInit, SealsWhatIsStored, Processes, Down
<1> QED
  BY <1>1, <1>2, <1>3 DEF KeysInv

\* One process takes a step that leaves the row and its lock alone, and does
\* not begin to seal.
LEMMA OneStep ==
  ASSUME KeysInv, NEW p \in Processes, NEW r \in Process, r.step # "sealing",
         running' = [running EXCEPT ![p] = r],
         UNCHANGED <<stored, given>>, rowlock' = rowlock \/ rowlock = p,
         rowlock' \in Instances \cup {Nobody},
         variable' \in Variables, entries' \in 0 .. Entries
  PROVE  KeysInv'
<1>1. KeysTypeOK'
  BY DEF KeysInv, KeysTypeOK, Process, Processes
<1>2. StoredIsGiven'
  BY DEF KeysInv, StoredIsGiven
<1>3. SealsWhatIsStored'
  <2> SUFFICES ASSUME NEW q \in Instances,
                      running'[q].step = "sealing", running'[q].saw # NoSetting
               PROVE  rowlock' = q /\ running'[q].saw = stored'
    BY DEF SealsWhatIsStored
  <2>1. q # p /\ running'[q] = running[q]
    BY DEF KeysInv, KeysTypeOK, Processes
  <2>2. rowlock = q /\ running[q].saw = stored
    BY <2>1 DEF KeysInv, SealsWhatIsStored
  <2> QED
    BY <2>1, <2>2
<1> QED
  BY <1>1, <1>2, <1>3 DEF KeysInv

LEMMA LockStoredKeeps ==
  ASSUME KeysInv, NEW p \in Instances, LockStored(p)
  PROVE  KeysInv'
<1> DEFINE r == [running[p] EXCEPT !.step = "sealing", !.saw = stored]
<1>1. p \in Processes /\ running[p] \in Process
  BY ProcessFields DEF KeysInv, Processes
<1>2. /\ running' = [running EXCEPT ![p] = r] /\ r \in Process
      /\ r.step = "sealing" /\ r.saw = stored
  BY <1>1 DEF LockStored, KeysInv, KeysTypeOK, Process
<1>3. KeysTypeOK'
  BY <1>1, <1>2 DEF LockStored, KeysInv, KeysTypeOK, Process, Processes
<1>4. StoredIsGiven'
  BY DEF LockStored, KeysInv, StoredIsGiven
<1>5. SealsWhatIsStored'
  <2> SUFFICES ASSUME NEW q \in Instances,
                      running'[q].step = "sealing", running'[q].saw # NoSetting
               PROVE  rowlock' = q /\ running'[q].saw = stored'
    BY DEF SealsWhatIsStored
  <2>1. CASE q = p
    BY <1>1, <1>2, <2>1 DEF LockStored, KeysInv, KeysTypeOK, Processes
  <2>2. CASE q # p
    <3>1. running'[q] = running[q]
      BY <1>2, <2>2 DEF KeysInv, KeysTypeOK, Processes
    <3>2. rowlock = q /\ rowlock = Nobody
      BY <3>1 DEF LockStored, KeysInv, SealsWhatIsStored
    <3> QED
      BY <3>2, KeysAssumption DEF Nobody
  <2> QED
    BY <2>1, <2>2
<1> QED
  BY <1>3, <1>4, <1>5 DEF KeysInv

LEMMA SealStoredKeeps ==
  ASSUME KeysInv, NEW p \in Instances, SealStored(p)
  PROVE  KeysInv'
<1> DEFINE list == running[p].list
           saw == running[p].saw
           r == [running[p] EXCEPT !.step = "serving", !.saw = NoSetting]
           seals == saw # NoSetting /\ needs_reseal(list, saw) /\ Opens(list, saw)
<1>1. /\ p \in Processes /\ running[p] \in Process /\ running[p].step = "sealing"
      /\ list \in Seq(Nat \ {0}) /\ saw \in Setting /\ stored \in Setting
  BY ProcessFields DEF KeysInv, Processes, SealStored, KeysTypeOK
<1>2. /\ running' = [running EXCEPT ![p] = r] /\ r \in Process
      /\ r.step = "serving" /\ r.saw = NoSetting
  BY <1>1, ASetting DEF SealStored, Process
<1>3. /\ stored' = IF seals THEN seal(list, saw.secret) ELSE stored
      /\ rowlock' = IF rowlock = p THEN Nobody ELSE rowlock
      /\ UNCHANGED <<variable, given, entries>>
  BY DEF SealStored
<1>4. seals => rowlock = p /\ saw = stored
  BY <1>1 DEF KeysInv, SealsWhatIsStored
<1> HIDE DEF seals
<1>5. stored' \in Setting /\ (stored' = NoSetting <=> stored = NoSetting)
      /\ (stored # NoSetting => stored'.secret = stored.secret)
  <2>1. CASE seals
    <3>1. stored # NoSetting /\ saw = stored
      BY <1>4, <2>1 DEF seals
    <3>2. stored.secret \in Secrets
      BY <1>1, <3>1, ARow
    <3> QED
      BY <1>1, <1>3, <2>1, <3>1, <3>2, Sealed
  <2>2. CASE ~seals
    BY <1>1, <1>3, <2>2
  <2> QED
    BY <2>1, <2>2
<1>6. KeysTypeOK'
  <2>1. running' \in [Instances \cup Readers -> Process]
    BY <1>2 DEF KeysInv, KeysTypeOK, Process
  <2>2. rowlock' \in Instances \cup {Nobody}
    BY <1>3 DEF KeysInv, KeysTypeOK
  <2> QED
    BY <1>3, <1>5, <2>1, <2>2 DEF KeysInv, KeysTypeOK, Process
<1>7. StoredIsGiven'
  BY <1>3, <1>5 DEF KeysInv, StoredIsGiven
<1>8. SealsWhatIsStored'
  <2> SUFFICES ASSUME NEW q \in Instances,
                      running'[q].step = "sealing", running'[q].saw # NoSetting
               PROVE  rowlock' = q /\ running'[q].saw = stored'
    BY DEF SealsWhatIsStored
  <2>1. q # p /\ running'[q] = running[q]
    BY <1>2 DEF KeysInv, KeysTypeOK
  <2>2. rowlock = q /\ running[q].saw = stored
    BY <2>1 DEF KeysInv, SealsWhatIsStored
  <2>3. ~seals
    BY <1>4, <2>1, <2>2
  <2> QED
    BY <1>3, <2>1, <2>2, <2>3
<1> QED
  BY <1>6, <1>7, <1>8 DEF KeysInv

LEMMA WriteSettingKeeps ==
  ASSUME KeysInv, NEW p \in Instances, WriteSetting(p)
  PROVE  KeysInv'
<1> DEFINE list == running[p].list
           wants == running[p].wants
           r == [running[p] EXCEPT !.step = "serving", !.saw = NoSetting, !.wants = ""]
<1>1. /\ p \in Processes /\ running[p] \in Process
      /\ list \in Seq(Nat \ {0}) /\ wants \in Secrets \cup {""}
  BY ProcessFields DEF KeysInv, Processes
<1>2. /\ running' = [running EXCEPT ![p] = r] /\ r \in Process
      /\ r.step = "serving"
  BY <1>1, ASetting DEF WriteSetting, Applied, Process
<1>3. /\ \/ UNCHANGED <<stored, given>>
         \/ given' = wants /\ stored' = IF wants = "" THEN NoSetting ELSE seal(list, wants)
      /\ rowlock = Nobody /\ UNCHANGED <<variable, rowlock, entries>>
  BY DEF WriteSetting
<1>4. stored' \in Setting /\ given' \in Secrets \cup {""} /\ StoredIsGiven'
  <2>1. CASE UNCHANGED <<stored, given>>
    BY <2>1 DEF KeysInv, KeysTypeOK, StoredIsGiven
  <2>2. CASE given' = wants /\ wants = "" /\ stored' = NoSetting
    BY <1>1, <2>2, ASetting DEF StoredIsGiven
  <2>3. CASE given' = wants /\ wants # "" /\ stored' = seal(list, wants)
    <3>1. wants \in Secrets
      BY <1>1, <2>3
    <3> HIDE DEF wants, list
    <3>2. stored' \in Setting /\ stored' # NoSetting /\ stored'.secret = wants
      BY <1>1, <2>3, <3>1, Sealed
    <3> QED
      BY <2>3, <3>1, <3>2 DEF StoredIsGiven
  <2> QED
    BY <1>3, <2>1, <2>2, <2>3
<1>5. KeysTypeOK'
  <2>1. running' \in [Instances \cup Readers -> Process]
    BY <1>2 DEF KeysInv, KeysTypeOK, Process
  <2> QED
    BY <1>3, <1>4, <2>1 DEF KeysInv, KeysTypeOK, Process
<1>6. SealsWhatIsStored'
  <2> SUFFICES ASSUME NEW q \in Instances,
                      running'[q].step = "sealing", running'[q].saw # NoSetting
               PROVE  FALSE
    BY DEF SealsWhatIsStored
  <2>1. running'[q] = running[q]
    BY <1>2 DEF KeysInv, KeysTypeOK
  <2>2. rowlock = q
    BY <2>1 DEF KeysInv, SealsWhatIsStored
  <2> QED
    BY <1>3, <2>2, KeysAssumption DEF Nobody
<1> QED
  BY <1>4, <1>5, <1>6 DEF KeysInv
-----------------------------------------------------------------------------
LEMMA KeysNextKeeps == KeysInv /\ [KeysNext]_keyVars => KeysInv'
<1> SUFFICES ASSUME KeysInv, [KeysNext]_keyVars PROVE KeysInv'
  OBVIOUS
<1>1. /\ variable \in Variables /\ rowlock \in Instances \cup {Nobody} /\ entries \in 0 .. Entries
      /\ stored \in Setting
  BY DEF KeysInv, KeysTypeOK
<1>2. ASSUME NEW list \in Variables, Configure(list) PROVE KeysInv'
  <2>1. KeysTypeOK'
    BY <1>1, <1>2, Bounded DEF Configure, KeysInv, KeysTypeOK
  <2> QED
    BY <1>2, <2>1 DEF Configure, KeysInv, StoredIsGiven, SealsWhatIsStored
<1>3. ASSUME NEW p \in Processes, Starts(p) PROVE KeysInv'
  <2> DEFINE pc == IF p \in Instances /\ variable # <<>> THEN "starting" ELSE "serving"
             r == [Down EXCEPT !.list = variable, !.step = pc]
  <2>1. r \in Process /\ r.step # "sealing"
    BY <1>1, ASetting DEF Process, Down
  <2> QED
    BY <1>1, <1>3, <2>1, OneStep DEF Starts
<1>4. ASSUME NEW p \in Processes, Dies(p) PROVE KeysInv'
  <2>1. Down \in Process /\ Down.step # "sealing"
    BY ASetting DEF Down
  <2> QED
    BY <1>1, <1>4, <2>1, OneStep DEF Dies
<1>5. ASSUME NEW p \in Instances, LockStored(p) PROVE KeysInv'
  BY <1>5, LockStoredKeeps
<1>6. ASSUME NEW p \in Instances, SealStored(p) PROVE KeysInv'
  BY <1>6, SealStoredKeeps
<1>7. ASSUME NEW p \in Instances, WriteSetting(p) PROVE KeysInv'
  BY <1>7, WriteSettingKeeps
<1>8. ASSUME NEW p \in Instances, Unwritten(p) PROVE KeysInv'
  <2> DEFINE r == [running[p] EXCEPT !.step = "serving", !.saw = NoSetting, !.wants = ""]
  <2>1. p \in Processes /\ running[p] \in Process
    BY ProcessFields DEF KeysInv, Processes
  <2>2. r \in Process /\ r.step # "sealing"
    BY <2>1, ASetting DEF Process
  <2> QED
    BY <1>1, <1>8, <2>1, <2>2, OneStep DEF Unwritten, Applied
<1>9. ASSUME NEW p \in Instances, NEW secret \in Secrets \cup {""}, ReadSetting(p, secret)
      PROVE  KeysInv'
  <2> DEFINE r == [running[p] EXCEPT !.step = "applying", !.saw = stored, !.wants = secret]
  <2>1. p \in Processes /\ running[p] \in Process
    BY ProcessFields DEF KeysInv, Processes
  <2>2. r \in Process /\ r.step # "sealing"
    BY <1>1, <2>1 DEF Process
  <2>3. entries' \in 0 .. Entries
    BY <1>1, <1>9, Bounded DEF ReadSetting
  <2> QED
    BY <1>1, <1>9, <2>1, <2>2, <2>3, OneStep DEF ReadSetting
<1>10. CASE UNCHANGED keyVars
  BY <1>10 DEF keyVars, KeysInv, KeysTypeOK, StoredIsGiven, SealsWhatIsStored
<1> QED
  BY <1>2, <1>3, <1>4, <1>5, <1>6, <1>7, <1>8, <1>9, <1>10 DEF KeysNext, Processes

\* The row, its lock and every process hold values of their types.
THEOREM KeysTypeCorrect == KeysSpec => []KeysTypeOK
<1>1. KeysInv => KeysTypeOK
  BY DEF KeysInv
<1> QED
  BY <1>1, KeysInitially, KeysNextKeeps, PTL DEF KeysSpec

\* A job is given the key that was entered last, or none: sealing, applying,
\* starting and stopping in any order.
THEOREM EnteredKeyIsUsed == KeysSpec => []JobsUseTheKeyEntered
<1>1. KeysInv => JobsUseTheKeyEntered
  BY DEF KeysInv, StoredIsGiven, JobsUseTheKeyEntered, effective
<1> QED
  BY <1>1, KeysInitially, KeysNextKeeps, PTL DEF KeysSpec
=============================================================================
