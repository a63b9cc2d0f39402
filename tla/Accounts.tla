------------------------------- MODULE Accounts -------------------------------
(***************************************************************************)
(* src/api/auth.rs, src/auth.rs and the User part of src/database.rs:      *)
(* accounts and their tokens.                                              *)
(*                                                                         *)
(* Registration asks for the name, then for the address, then inserts; the *)
(* table has a unique key on both.  A token is never stored: whoever has   *)
(* one is let in until it expires, and the guard of the other routes does  *)
(* not look at the database.  No route switches an account off: that is    *)
(* the operator's doing.  Passwords, roles and the wording of the answers  *)
(* are left out, and so are the checks of form.                            *)
(***************************************************************************)
EXTENDS Naturals, FiniteSets

CONSTANTS
    Callers,        \* requests under way at one time
    Names, Emails,
    JwtExpiry,      \* config.jwt_expiry
    RefreshExpiry,  \* config.refresh_expiry
    MaxUsers,       \* bound: rows of users
    MaxSignIns,     \* bound: tokens generated
    MaxClock        \* bound: seconds, one at least for the longest request

ASSUME AccountsAssumption == /\ JwtExpiry \in Nat /\ RefreshExpiry \in Nat
                             /\ MaxUsers \in Nat /\ MaxSignIns \in Nat /\ MaxClock \in Nat

VARIABLES
    users,          \* table users: id -> name, email, is_active
    call,           \* per request: next step, name, email, the row's id
    tokens,         \* tokens given out: user, type, exp; expired ones forgotten
    clock,          \* Utc::now().timestamp()
    signIns,
    lastActive      \* history: when each account was last seen switched on

accountVars == <<users, call, tokens, clock, signIns, lastActive>>

NoId == 0
NoCall == [at |-> "idle", name |-> "", email |-> "", id |-> NoId]
UserIds == 1..MaxUsers

AccountsInit ==
    /\ users = [i \in {} |-> NoCall]
    /\ call = [q \in Callers |-> NoCall]
    /\ tokens = {} /\ clock = 0 /\ signIns = 0
    /\ lastActive = [i \in UserIds |-> 0]
-----------------------------------------------------------------------------
(* InsertUnconstrained and RefreshUnchecked are faulty variants of the     *)
(* definition that follows each; no action uses them.                      *)
-----------------------------------------------------------------------------
Taken(name) == \E i \in DOMAIN users : users[i].name = name
TakenEmail(email) == \E i \in DOMAIN users : users[i].email = email

Proceed(q, from, to) ==
    /\ call[q].at = from
    /\ call' = [call EXCEPT ![q].at = to]

(* The request is answered with an error, the database's errors included.  *)
Refuse(q) ==
    /\ call[q].at # "idle"
    /\ call' = [call EXCEPT ![q] = NoCall]
    /\ UNCHANGED <<users, tokens, clock, signIns, lastActive>>
-----------------------------------------------------------------------------
(* register.                                                               *)

Register(q, name, email) ==
    /\ call[q] = NoCall
    /\ Cardinality(DOMAIN users) < MaxUsers
    /\ call' = [call EXCEPT ![q] = [NoCall EXCEPT !.at = "name", !.name = name, !.email = email]]
    /\ UNCHANGED <<users, tokens, clock, signIns, lastActive>>

CheckName(q) ==
    /\ ~Taken(call[q].name)
    /\ Proceed(q, "name", "email")
    /\ UNCHANGED <<users, tokens, clock, signIns, lastActive>>

CheckEmail(q) ==
    /\ ~TakenEmail(call[q].email)
    /\ Proceed(q, "email", "insert")
    /\ UNCHANGED <<users, tokens, clock, signIns, lastActive>>

InsertUnconstrained(q) ==
    LET i == Cardinality(DOMAIN users) + 1
    IN  /\ call[q].at = "insert" /\ i \in UserIds
        /\ users' = [j \in DOMAIN users \cup {i} |->
                       IF j = i THEN [name |-> call[q].name, email |-> call[q].email, active |-> TRUE]
                       ELSE users[j]]
        /\ call' = [call EXCEPT ![q] = [NoCall EXCEPT !.at = "tokens", !.id = i]]
        /\ lastActive' = [lastActive EXCEPT ![i] = clock]
        /\ UNCHANGED <<tokens, clock, signIns>>

(* Another registration may have been quicker: then the unique key refuses *)
(* the row (Refuse).  User::create switches the account on.                *)
Insert(q) ==
    LET i == Cardinality(DOMAIN users) + 1
    IN  /\ call[q].at = "insert" /\ i \in UserIds
        /\ ~Taken(call[q].name) /\ ~TakenEmail(call[q].email)
        /\ users' = [j \in DOMAIN users \cup {i} |->
                       IF j = i THEN [name |-> call[q].name, email |-> call[q].email, active |-> TRUE]
                       ELSE users[j]]
        /\ call' = [call EXCEPT ![q] = [NoCall EXCEPT !.at = "tokens", !.id = i]]
        /\ lastActive' = [lastActive EXCEPT ![i] = clock]
        /\ UNCHANGED <<tokens, clock, signIns>>
-----------------------------------------------------------------------------
(* login and refresh_token; generate_tokens, at the end of all three.      *)

(* The row is read once; the password is checked on that copy. *)
Login(q, i) ==
    /\ call[q] = NoCall
    /\ i \in DOMAIN users /\ users[i].active
    /\ call' = [call EXCEPT ![q] = [NoCall EXCEPT !.at = "tokens", !.id = i]]
    /\ UNCHANGED <<users, tokens, clock, signIns, lastActive>>

(* verify_token *)
Valid(t) == clock <= t.exp

RefreshUnchecked(q, t) ==
    /\ call[q] = NoCall
    /\ t.type = "refresh" /\ Valid(t)
    /\ t.user \in DOMAIN users
    /\ call' = [call EXCEPT ![q] = [NoCall EXCEPT !.at = "tokens", !.id = t.user]]
    /\ UNCHANGED <<users, tokens, clock, signIns, lastActive>>

(* The old refresh token stays as good as it was. *)
Refresh(q, t) ==
    /\ call[q] = NoCall
    /\ t.type = "refresh" /\ Valid(t)
    /\ t.user \in DOMAIN users /\ users[t.user].active
    /\ call' = [call EXCEPT ![q] = [NoCall EXCEPT !.at = "tokens", !.id = t.user]]
    /\ UNCHANGED <<users, tokens, clock, signIns, lastActive>>

GenerateTokens(q) ==
    LET Token(type, expiry) == [user |-> call[q].id, type |-> type, exp |-> clock + expiry]
    IN  /\ call[q].at = "tokens" /\ signIns < MaxSignIns
        /\ signIns' = signIns + 1
        /\ tokens' = tokens \cup {Token("access", JwtExpiry), Token("refresh", RefreshExpiry)}
        /\ call' = [call EXCEPT ![q] = NoCall]
        /\ UNCHANGED <<users, clock, lastActive>>
-----------------------------------------------------------------------------
(* The operator and the clock.                                             *)

Disable(i) ==
    /\ i \in DOMAIN users /\ users[i].active
    /\ users' = [users EXCEPT ![i].active = FALSE]
    /\ UNCHANGED <<call, tokens, clock, signIns, lastActive>>

(* A second is longer than any request takes from the row to the tokens.   *)
Tick ==
    /\ clock < MaxClock
    /\ \A q \in Callers : call[q].at # "tokens"
    /\ clock' = clock + 1
    /\ tokens' = {t \in tokens : clock' <= t.exp}
    /\ lastActive' = [i \in UserIds |->
                        IF i \in DOMAIN users /\ users[i].active THEN clock'
                        ELSE lastActive[i]]
    /\ UNCHANGED <<users, call, signIns>>
-----------------------------------------------------------------------------
AccountsNext ==
    \/ \E q \in Callers :
         \/ \E name \in Names, email \in Emails : Register(q, name, email)
         \/ CheckName(q) \/ CheckEmail(q) \/ Insert(q) \/ Refuse(q)
         \/ \E i \in UserIds : Login(q, i)
         \/ \E t \in tokens : Refresh(q, t)
         \/ GenerateTokens(q)
    \/ \E i \in UserIds : Disable(i)
    \/ Tick

AccountsSpec == AccountsInit /\ [][AccountsNext]_accountVars
-----------------------------------------------------------------------------
(* Properties.                                                             *)

AccountsTypeOK ==
    /\ DOMAIN users \subseteq UserIds
    /\ \A i \in DOMAIN users :
         users[i] \in [name : Names, email : Emails, active : BOOLEAN]
    /\ call \in [Callers -> [at : {"idle", "name", "email", "insert", "tokens"},
                             name : Names \cup {""}, email : Emails \cup {""},
                             id : UserIds \cup {NoId}]]
    /\ tokens \subseteq [user : UserIds, type : {"access", "refresh"}, exp : Nat]
    /\ clock \in 0..MaxClock /\ signIns \in 0..MaxSignIns
    /\ lastActive \in [UserIds -> Nat]

(* Two registrations that both found the name and the address free leave   *)
(* one account: names and addresses stay unique.                           *)
NamesUnique ==
    \A i, j \in DOMAIN users :
        i # j => users[i].name # users[j].name /\ users[i].email # users[j].email

(* The API's guard, AuthenticatedUser. *)
LetIn(i) == \E t \in tokens : t.user = i /\ t.type = "access" /\ Valid(t)

(* An account that is switched off is locked out once its access tokens    *)
(* have expired: no chain of refreshes, begun before, keeps it in.         *)
DisabledLockedOut == \A i \in DOMAIN users : LetIn(i) => clock <= lastActive[i] + JwtExpiry
=============================================================================
