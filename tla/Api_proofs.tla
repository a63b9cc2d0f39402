------------------------------ MODULE Api_proofs ------------------------------
(***************************************************************************)
(* The safety properties of Accounts, for any callers, names and expiries, *)
(* and those of Catalog, for any streams, titles, editors and page sizes.  *)
(* The two modules share no state.                                         *)
(*                                                                         *)
(* DisabledLockedOut speaks of one token; what carries it is that every    *)
(* access token was signed within the second in which its account was last *)
(* seen switched on, and that a request about to sign was let through in   *)
(* this second.  UpdatesKept needs that a copy nobody overtook is what the *)
(* row says; PagesTile that the sorted listing exists, which it does since *)
(* no two live rows were started by one write, and that a walk ends before *)
(* its offset wraps.                                                       *)
(***************************************************************************)
EXTENDS Catalog, Accounts, FiniteSetTheorems, TLAPS

Calls == [at : {"idle", "name", "email", "insert", "tokens"},
          name : Names \cup {""}, email : Emails \cup {""}, id : UserIds \cup {NoId}]
Rows == [name : Names, email : Emails, active : BOOLEAN]
Tokens == [user : UserIds, type : {"access", "refresh"}, exp : Nat]

(* The type invariant with its sets named. *)
Typed ==
    /\ DOMAIN users \subseteq UserIds /\ \A i \in DOMAIN users : users[i] \in Rows
    /\ call \in [Callers -> Calls]
    /\ tokens \subseteq Tokens
    /\ clock \in 0..MaxClock /\ signIns \in 0..MaxSignIns
    /\ lastActive \in [UserIds -> Nat]

(* A request that is to be given tokens has an account. *)
SigningFor == \A q \in Callers : call[q].at = "tokens" => call[q].id \in UserIds

(* A request on its way to the row has a name and an address. *)
Registering ==
    \A q \in Callers :
        call[q].at \in {"name", "email", "insert"} =>
            call[q].name \in Names /\ call[q].email \in Emails

AccountsTInv == Typed /\ SigningFor /\ Registering

SeenActive ==
    /\ \A i \in UserIds : lastActive[i] <= clock
    /\ \A i \in DOMAIN users : users[i].active => lastActive[i] = clock
    /\ \A q \in Callers : call[q].at = "tokens" => lastActive[call[q].id] = clock

SignedWhileActive ==
    \A t \in tokens : t.type = "access" => t.exp <= lastActive[t.user] + JwtExpiry

AInv == SeenActive /\ SignedWhileActive
-----------------------------------------------------------------------------
(* The requests that handlers begin and end with. *)
LEMMA AtRest == NoCall \in Calls /\ NoCall.at = "idle"
  BY DEF Calls, NoCall, NoId

LEMMA ToSign ==
    ASSUME NEW i \in UserIds, NEW c, c = [NoCall EXCEPT !.at = "tokens", !.id = i]
    PROVE  c \in Calls /\ c.at = "tokens" /\ c.id = i
  BY DEF Calls, NoCall, NoId

(* What it takes of a request's next state. *)
LEMMA CallStep ==
    ASSUME AccountsTInv, NEW q \in Callers, NEW c \in Calls, call' = [call EXCEPT ![q] = c],
           c.at = "tokens" => c.id \in UserIds,
           c.at \in {"name", "email", "insert"} => c.name \in Names /\ c.email \in Emails
    PROVE  call' \in [Callers -> Calls] /\ SigningFor' /\ Registering'
<1>1. call' \in [Callers -> Calls]
  BY DEF AccountsTInv, Typed
<1>2. \A p \in Callers : call'[p] = IF p = q THEN c ELSE call[p]
  BY DEF AccountsTInv, Typed
<1> QED BY <1>1, <1>2 DEF AccountsTInv, SigningFor, Registering

LEMMA AccountsTypeStep ==
    ASSUME AccountsTInv, [AccountsNext]_accountVars
    PROVE  AccountsTInv'
<1>0. /\ call \in [Callers -> Calls] /\ lastActive \in [UserIds -> Nat]
      /\ clock \in Nat /\ tokens \subseteq Tokens /\ DOMAIN users \subseteq UserIds
  BY AccountsAssumption DEF AccountsTInv, Typed
<1>1. ASSUME NEW q \in Callers, NEW name \in Names, NEW email \in Emails,
             Register(q, name, email)
      PROVE  AccountsTInv'
  <2> DEFINE c == [NoCall EXCEPT !.at = "name", !.name = name, !.email = email]
  <2>1. call' = [call EXCEPT ![q] = c]
    BY <1>1 DEF Register
  <2>2. c \in Calls /\ c.at = "name" /\ c.name = name /\ c.email = email
    BY DEF Calls, NoCall, NoId
  <2> HIDE DEF c
  <2>3. call' \in [Callers -> Calls] /\ SigningFor' /\ Registering'
    BY <2>1, <2>2, CallStep
  <2> QED BY <1>1, <2>3 DEF Register, AccountsTInv, Typed
<1>2. ASSUME NEW q \in Callers, NEW from \in {"name", "email"}, NEW to \in {"email", "insert"},
             Proceed(q, from, to), UNCHANGED <<users, tokens, clock, signIns, lastActive>>
      PROVE  AccountsTInv'
  <2> DEFINE c == [call[q] EXCEPT !.at = to]
  <2>1. call' = [call EXCEPT ![q] = c] /\ call[q] \in Calls
    BY <1>0, <1>2 DEF Proceed
  <2>2. c \in Calls /\ c.at = to /\ c.name = call[q].name /\ c.email = call[q].email
    BY <2>1 DEF Calls
  <2>3. call[q].name \in Names /\ call[q].email \in Emails
    BY <1>2 DEF Proceed, AccountsTInv, Registering
  <2> HIDE DEF c
  <2>4. call' \in [Callers -> Calls] /\ SigningFor' /\ Registering'
    BY <2>1, <2>2, <2>3, CallStep
  <2> QED BY <1>2, <2>4 DEF AccountsTInv, Typed
<1>3. ASSUME NEW q \in Callers, Insert(q) PROVE AccountsTInv'
  <2> DEFINE i == Cardinality(DOMAIN users) + 1
             row == [name |-> call[q].name, email |-> call[q].email, active |-> TRUE]
  <2>1. i \in UserIds /\ row \in Rows
    BY <1>3 DEF Insert, AccountsTInv, Registering, Rows
  <2>2. users' = [j \in DOMAIN users \cup {i} |-> IF j = i THEN row ELSE users[j]]
    BY <1>3 DEF Insert
  <2> DEFINE c == [NoCall EXCEPT !.at = "tokens", !.id = i]
  <2>3. call' = [call EXCEPT ![q] = c]
    BY <1>3 DEF Insert
  <2>4. lastActive' = [lastActive EXCEPT ![i] = clock] /\ UNCHANGED <<tokens, clock, signIns>>
    BY <1>3 DEF Insert
  <2> HIDE DEF i, row
  <2>5. call' \in [Callers -> Calls] /\ SigningFor' /\ Registering'
    <3>1. c \in Calls /\ c.at = "tokens" /\ c.id = i
      BY <2>1, ToSign
    <3> HIDE DEF c
    <3> QED BY <2>1, <2>3, <3>1, CallStep
  <2> QED BY <1>0, <2>1, <2>2, <2>4, <2>5 DEF AccountsTInv, Typed
<1>4. ASSUME NEW q \in Callers, Refuse(q) PROVE AccountsTInv'
  BY <1>4, AtRest, CallStep DEF Refuse, AccountsTInv, Typed
<1>5. ASSUME NEW q \in Callers, NEW i \in UserIds,
             call' = [call EXCEPT ![q] = [NoCall EXCEPT !.at = "tokens", !.id = i]],
             UNCHANGED <<users, tokens, clock, signIns, lastActive>>
      PROVE  AccountsTInv'
  <2> DEFINE c == [NoCall EXCEPT !.at = "tokens", !.id = i]
  <2>1. c \in Calls /\ c.at = "tokens" /\ c.id = i
    BY ToSign
  <2>2. call' = [call EXCEPT ![q] = c]
    BY <1>5
  <2> HIDE DEF c
  <2>3. call' \in [Callers -> Calls] /\ SigningFor' /\ Registering'
    BY <2>1, <2>2, CallStep
  <2> QED BY <1>5, <2>3 DEF AccountsTInv, Typed
<1>6. ASSUME NEW q \in Callers, NEW t \in tokens, Refresh(q, t) PROVE AccountsTInv'
  <2>1. t.user \in UserIds
    BY <1>0 DEF Tokens
  <2> QED BY <1>5, <1>6, <2>1 DEF Refresh
<1>7. ASSUME NEW q \in Callers, GenerateTokens(q) PROVE AccountsTInv'
  <2>1. call' \in [Callers -> Calls] /\ SigningFor' /\ Registering'
    BY <1>7, AtRest, CallStep DEF GenerateTokens
  <2>2. tokens' \subseteq Tokens
    BY <1>0, <1>7, AccountsAssumption DEF GenerateTokens, Tokens, AccountsTInv, SigningFor
  <2>3. signIns' \in 0..MaxSignIns
    BY <1>7, AccountsAssumption DEF GenerateTokens, AccountsTInv, Typed
  <2> QED BY <1>7, <2>1, <2>2, <2>3 DEF GenerateTokens, AccountsTInv, Typed
<1>8. ASSUME NEW i \in UserIds, Disable(i) PROVE AccountsTInv'
  BY <1>8 DEF Disable, AccountsTInv, Typed, Rows, SigningFor, Registering
<1>9. CASE Tick
  <2>1. clock' \in 0..MaxClock /\ clock' \in Nat
    BY <1>9, AccountsAssumption DEF Tick, AccountsTInv, Typed
  <2>2. lastActive' \in [UserIds -> Nat]
    BY <1>0, <1>9, <2>1 DEF Tick
  <2> QED BY <1>9, <2>1, <2>2 DEF Tick, AccountsTInv, Typed, SigningFor, Registering
<1>10. CASE UNCHANGED accountVars
  BY <1>10 DEF accountVars, AccountsTInv, Typed, SigningFor, Registering
<1> QED
  BY <1>1, <1>2, <1>3, <1>4, <1>5, <1>6, <1>7, <1>8, <1>9, <1>10
     DEF AccountsNext, CheckName, CheckEmail, Login

LEMMA AccountsTInvHolds == AccountsSpec => []AccountsTInv
<1>1. ASSUME AccountsInit PROVE AccountsTInv
  <2>1. Typed
    <3>1. call \in [Callers -> Calls]
      BY <1>1, AtRest DEF AccountsInit
    <3>2. DOMAIN users = {} /\ tokens = {} /\ clock = 0 /\ signIns = 0
      BY <1>1 DEF AccountsInit
    <3>3. lastActive \in [UserIds -> Nat]
      BY <1>1 DEF AccountsInit
    <3> QED BY <3>1, <3>2, <3>3, AccountsAssumption DEF Typed
  <2>2. SigningFor /\ Registering
    BY <1>1, AtRest DEF AccountsInit, SigningFor, Registering
  <2> QED BY <2>1, <2>2 DEF AccountsTInv
<1> QED BY <1>1, AccountsTypeStep, PTL DEF AccountsSpec

(* Accounts, requests and tokens keep their types.                         *)
THEOREM AccountsTypeCorrect == AccountsSpec => []AccountsTypeOK
<1>1. AccountsTInv => AccountsTypeOK
  BY Zenon DEF AccountsTInv, Typed, AccountsTypeOK, Calls, Rows, Tokens
<1> QED BY <1>1, AccountsTInvHolds, PTL
-----------------------------------------------------------------------------
(* Any number of registrations leave one account for a name and for an     *)
(* address, however their looks and their insertions interleave.           *)
THEOREM NamesStayUnique == AccountsSpec => []NamesUnique
<1>1. AccountsInit => NamesUnique
  BY DEF AccountsInit, NamesUnique
<1>2. ASSUME NamesUnique, [AccountsNext]_accountVars PROVE NamesUnique'
  <2>1. ASSUME NEW q \in Callers, Insert(q) PROVE NamesUnique'
    BY <1>2, <2>1 DEF NamesUnique, Insert, Taken, TakenEmail
  <2>2. ASSUME NEW i, Disable(i) PROVE NamesUnique'
    BY <1>2, <2>2 DEF NamesUnique, Disable
  <2>3. CASE UNCHANGED users
    BY <1>2, <2>3 DEF NamesUnique
  <2> QED
    BY <1>2, <2>1, <2>2, <2>3
       DEF AccountsNext, accountVars, Register, CheckName, CheckEmail, Refuse, Login,
           Refresh, GenerateTokens, Tick
<1> QED BY <1>1, <1>2, PTL DEF AccountsSpec
-----------------------------------------------------------------------------
(* A request's step that touches neither accounts nor tokens nor time. *)
LEMMA CallSigns ==
    ASSUME AccountsTInv, AInv, NEW q \in Callers, NEW c, call' = [call EXCEPT ![q] = c],
           c.at = "tokens" => lastActive[c.id] = clock,
           UNCHANGED <<users, tokens, clock, lastActive>>
    PROVE  AInv'
<1>1. \A p \in Callers : call'[p] = IF p = q THEN c ELSE call[p]
  BY DEF AccountsTInv, Typed
<1> QED BY <1>1 DEF AInv, SeenActive, SignedWhileActive

LEMMA ActiveStep ==
    ASSUME AccountsTInv, AccountsTInv', AInv, [AccountsNext]_accountVars
    PROVE  AInv'
<1>0. /\ call \in [Callers -> Calls] /\ lastActive \in [UserIds -> Nat]
      /\ clock \in Nat /\ tokens \subseteq Tokens /\ DOMAIN users \subseteq UserIds
      /\ JwtExpiry \in Nat /\ RefreshExpiry \in Nat
  BY AccountsAssumption DEF AccountsTInv, Typed
<1>1. ASSUME NEW q \in Callers, NEW name \in Names, NEW email \in Emails,
             Register(q, name, email)
      PROVE  AInv'
  <2> DEFINE c == [NoCall EXCEPT !.at = "name", !.name = name, !.email = email]
  <2>1. c.at = "name"
    BY DEF NoCall
  <2>2. call' = [call EXCEPT ![q] = c] /\ UNCHANGED <<users, tokens, clock, lastActive>>
    BY <1>1 DEF Register
  <2> HIDE DEF c
  <2> QED BY <2>1, <2>2, CallSigns
<1>2. ASSUME NEW q \in Callers, NEW from, NEW to \in {"email", "insert"}, Proceed(q, from, to),
             UNCHANGED <<users, tokens, clock, lastActive>>
      PROVE  AInv'
  <2> DEFINE c == [call[q] EXCEPT !.at = to]
  <2>1. c.at = to
    BY <1>0 DEF Calls
  <2>2. call' = [call EXCEPT ![q] = c]
    BY <1>2 DEF Proceed
  <2> HIDE DEF c
  <2> QED BY <1>2, <2>1, <2>2, CallSigns
<1>3. ASSUME NEW q \in Callers, Insert(q) PROVE AInv'
  <2> DEFINE i == Cardinality(DOMAIN users) + 1
             row == [name |-> call[q].name, email |-> call[q].email, active |-> TRUE]
             c == [NoCall EXCEPT !.at = "tokens", !.id = i]
  <2>1. i \in UserIds /\ c.at = "tokens" /\ c.id = i
    BY <1>3, ToSign DEF Insert
  <2>2. users' = [j \in DOMAIN users \cup {i} |-> IF j = i THEN row ELSE users[j]]
    BY <1>3 DEF Insert
  <2>3. /\ call' = [call EXCEPT ![q] = c] /\ UNCHANGED <<tokens, clock>>
        /\ lastActive' = [lastActive EXCEPT ![i] = clock]
    BY <1>3 DEF Insert
  <2> HIDE DEF i, row, c
  <2>4. \A j \in UserIds : /\ lastActive'[j] = IF j = i THEN clock ELSE lastActive[j]
                          /\ lastActive'[j] >= lastActive[j] /\ lastActive'[j] <= clock
    BY <1>0, <2>1, <2>3 DEF AInv, SeenActive
  <2>5. \A j \in DOMAIN users' : users'[j].active => lastActive'[j] = clock
    BY <1>0, <2>1, <2>2, <2>4 DEF AInv, SeenActive
  <2>6. \A p \in Callers : call'[p].at = "tokens" => lastActive'[call'[p].id] = clock
    BY <1>0, <2>1, <2>3, <2>4 DEF AInv, SeenActive, AccountsTInv, SigningFor
  <2>7. SignedWhileActive'
    <3>1. \A t \in tokens : t.user \in UserIds /\ t.exp \in Nat
      BY <1>0 DEF Tokens
    <3>2. lastActive' \in [UserIds -> Nat]
      BY <1>0, <2>1, <2>3
    <3> QED BY <1>0, <2>3, <2>4, <3>1, <3>2 DEF AInv, SignedWhileActive
  <2> QED BY <2>3, <2>4, <2>5, <2>6, <2>7 DEF AInv, SeenActive
<1>4. ASSUME NEW q \in Callers, Refuse(q) PROVE AInv'
  BY <1>4, AtRest, CallSigns DEF Refuse
<1>5. ASSUME NEW q \in Callers, NEW i \in UserIds, i \in DOMAIN users, users[i].active,
             call' = [call EXCEPT ![q] = [NoCall EXCEPT !.at = "tokens", !.id = i]],
             UNCHANGED <<users, tokens, clock, lastActive>>
      PROVE  AInv'
  <2> DEFINE c == [NoCall EXCEPT !.at = "tokens", !.id = i]
  <2>1. c.id = i
    BY ToSign
  <2>2. call' = [call EXCEPT ![q] = c]
    BY <1>5
  <2> HIDE DEF c
  <2>3. lastActive[i] = clock
    BY <1>5 DEF AInv, SeenActive
  <2> QED BY <1>5, <2>1, <2>2, <2>3, CallSigns
<1>6. ASSUME NEW q \in Callers, NEW t \in tokens, Refresh(q, t) PROVE AInv'
  <2>1. t.user \in UserIds
    BY <1>0 DEF Tokens
  <2> QED BY <1>5, <1>6, <2>1 DEF Refresh
<1>7. ASSUME NEW q \in Callers, GenerateTokens(q) PROVE AInv'
  <2> DEFINE access == [user |-> call[q].id, type |-> "access", exp |-> clock + JwtExpiry]
             refresh == [user |-> call[q].id, type |-> "refresh", exp |-> clock + RefreshExpiry]
  <2>1. /\ tokens' = tokens \cup {access, refresh} /\ call' = [call EXCEPT ![q] = NoCall]
        /\ UNCHANGED <<users, clock, lastActive>>
    BY <1>7 DEF GenerateTokens
  <2>2. lastActive[access.user] = clock /\ access.exp = clock + JwtExpiry
    BY <1>7 DEF GenerateTokens, AInv, SeenActive
  <2>3. refresh.type # "access"
    OBVIOUS
  <2> HIDE DEF access, refresh
  <2>4. SignedWhileActive'
    BY <1>0, <2>1, <2>2, <2>3 DEF AInv, SignedWhileActive
  <2>5. SeenActive'
    BY <1>0, <2>1, AtRest DEF AInv, SeenActive
  <2> QED BY <2>4, <2>5 DEF AInv
<1>8. ASSUME NEW i \in UserIds, Disable(i) PROVE AInv'
  <2>1. \A j \in DOMAIN users' : j \in DOMAIN users /\ (users'[j].active => users[j].active)
    <3> DEFINE row == [users[i] EXCEPT !.active = FALSE]
    <3>1. ~row.active
      BY <1>8 DEF Disable, AccountsTInv, Typed, Rows
    <3>2. users' = [users EXCEPT ![i] = row] /\ i \in DOMAIN users
      BY <1>8 DEF Disable
    <3> HIDE DEF row
    <3> QED BY <3>1, <3>2
  <2> QED BY <1>8, <2>1 DEF Disable, AInv, SeenActive, SignedWhileActive
<1>9. CASE Tick
  <2>1. /\ clock' = clock + 1 /\ tokens' \subseteq tokens /\ UNCHANGED <<users, call>>
        /\ \A q \in Callers : call[q].at # "tokens"
    BY <1>9 DEF Tick
  <2>2. \A j \in UserIds :
          lastActive'[j] = IF j \in DOMAIN users /\ users[j].active THEN clock'
                           ELSE lastActive[j]
    BY <1>9 DEF Tick
  <2>3. \A j \in UserIds : /\ lastActive'[j] \in Nat /\ lastActive[j] \in Nat
                          /\ lastActive[j] <= lastActive'[j] /\ lastActive'[j] <= clock'
    BY <1>0, <2>1, <2>2 DEF AInv, SeenActive
  <2>4. SeenActive'
    BY <1>0, <2>1, <2>2, <2>3 DEF SeenActive
  <2>5. SignedWhileActive'
    <3>1. \A t \in tokens : t.user \in UserIds /\ t.exp \in Nat
      BY <1>0 DEF Tokens
    <3> QED BY <1>0, <2>1, <2>3, <3>1 DEF AInv, SignedWhileActive
  <2> QED BY <2>4, <2>5 DEF AInv
<1>10. CASE UNCHANGED accountVars
  BY <1>10 DEF accountVars, AInv, SeenActive, SignedWhileActive
<1> QED
  BY <1>1, <1>2, <1>3, <1>4, <1>5, <1>6, <1>7, <1>8, <1>9, <1>10
     DEF AccountsNext, CheckName, CheckEmail, Login

(* An account that was switched off is let in no longer than one access    *)
(* token lasts, whatever refreshes were under way.                         *)
THEOREM DisabledAreLockedOut == AccountsSpec => []DisabledLockedOut
<1>1. AccountsInit => AInv
  <2> SUFFICES ASSUME AccountsInit PROVE AInv
    OBVIOUS
  <2>1. DOMAIN users = {} /\ tokens = {} /\ clock = 0 /\ \A i \in UserIds : lastActive[i] = 0
    BY DEF AccountsInit
  <2>2. \A q \in Callers : call[q].at # "tokens"
    BY AtRest DEF AccountsInit
  <2> QED BY <2>1, <2>2 DEF AInv, SeenActive, SignedWhileActive
<1>2. ASSUME AccountsTInv, AInv PROVE DisabledLockedOut
  BY <1>2, AccountsAssumption DEF AccountsTInv, Typed, Tokens, AInv, SignedWhileActive,
                                  DisabledLockedOut, LetIn, Valid
<1> QED BY <1>1, <1>2, ActiveStep, AccountsTInvHolds, PTL DEF AccountsSpec
-----------------------------------------------------------------------------
(* Catalog.  A draft that no other update has overtaken holds what its row *)
(* says in the fields updates write, since only updates write those.       *)
StreamRow == [title : Titles, private : Flags, live : BOOLEAN, started : Nat, viewers : Nat]
Edits == [id : Ids, copy : StreamRow, field : {"title"}, value : Titles]
         \cup [id : Ids, copy : StreamRow, field : {"private"}, value : Flags]

RowsTyped ==
    /\ rows \in [DOMAIN rows -> StreamRow]
    /\ draft \in [Editors -> {NoDraft} \cup Edits]
    /\ writes \in Nat

(* An id is given out once, so a stream made later is no draft's. *)
IdsKnown ==
    /\ DOMAIN rows \subseteq known
    /\ \A e \in Editors : draft[e] # NoDraft => draft[e].id \in known

(* A copy that no other update has overtaken still says what the row says *)
(* in the fields that updates write. *)
CopyIsRow ==
    \A e \in Editors : e \notin outdated /\ draft[e] # NoDraft =>
        (draft[e].id \in DOMAIN rows =>
            /\ draft[e].copy.title = rows[draft[e].id].title
            /\ draft[e].copy.private = rows[draft[e].id].private)

UpdateInv == RowsTyped /\ IdsKnown /\ CopyIsRow

(* A draft that is not empty holds a row and a new value for one field. *)
LEMMA EditIsTyped ==
    ASSUME NEW d \in {NoDraft} \cup Edits, d # NoDraft
    PROVE  /\ d.id \in Ids /\ d.copy \in StreamRow
           /\ \/ d.field = "title" /\ d.value \in Titles
              \/ d.field = "private" /\ d.value \in Flags
  BY DEF Edits

(* The edited copy differs from the copy in the field asked for only. *)
LEMMA RowEdited ==
    ASSUME NEW e \in Editors, RowsTyped, draft[e] # NoDraft
    PROVE  /\ Edited(e).title \in Titles /\ Edited(e).private \in Flags
           /\ Edited(e).title # draft[e].copy.title => draft[e].field = "title"
           /\ Edited(e).private # draft[e].copy.private => draft[e].field = "private"
<1>1. draft[e] \in {NoDraft} \cup Edits
  BY DEF RowsTyped
<1> DEFINE d == draft[e]
<1>2. /\ d.copy \in StreamRow
      /\ \/ d.field = "title" /\ d.value \in Titles
         \/ d.field = "private" /\ d.value \in Flags
  BY <1>1, EditIsTyped
<1>3. Edited(e) = [d.copy EXCEPT ![d.field] = d.value]
  BY DEF Edited
<1> HIDE DEF d
<1>4. CASE d.field = "title"
  BY <1>2, <1>3, <1>4 DEF d, StreamRow, Flags
<1>5. CASE d.field = "private"
  BY <1>2, <1>3, <1>5 DEF d, StreamRow, Flags
<1> QED BY <1>2, <1>4, <1>5

(* What an update makes of the row it writes. *)
LEMMA RowWritten ==
    ASSUME NEW e \in Editors, RowsTyped, WriteUpdate(e), draft[e].id \in DOMAIN rows
    PROVE  LET i == draft[e].id
           IN  /\ rows' \in [DOMAIN rows -> StreamRow]
               /\ \A j \in DOMAIN rows \ {i} : rows'[j] = rows[j]
               /\ rows'[i] = [rows[i] EXCEPT !.title = Edited(e).title, !.private = Edited(e).private]
<1> DEFINE i == draft[e].id
           new == [rows[i] EXCEPT !.title = Edited(e).title, !.private = Edited(e).private]
<1>1. rows' = [rows EXCEPT ![i].title = Edited(e).title, ![i].private = Edited(e).private]
  BY DEF WriteUpdate
<1>2. Edited(e).title \in Titles /\ Edited(e).private \in Flags
  BY RowEdited DEF WriteUpdate
<1>3. rows \in [DOMAIN rows -> StreamRow] /\ i \in DOMAIN rows
  BY DEF RowsTyped
<1>4. new \in StreamRow
  BY <1>2, <1>3 DEF StreamRow
<1>5. rows' = [rows EXCEPT ![i] = new]
  BY <1>1, <1>3
<1> HIDE DEF i, new
<1>6. /\ rows' \in [DOMAIN rows -> StreamRow] /\ rows'[i] = new
      /\ \A j \in DOMAIN rows \ {i} : rows'[j] = rows[j]
  BY <1>3, <1>4, <1>5
<1> QED BY <1>6 DEF i, new

LEMMA UpdateInit == ASSUME CatalogInit PROVE UpdateInv
<1>1. PICK f \in [Existing -> {NewRow(title, "no") : title \in Titles}] : rows = f
  BY DEF CatalogInit
<1>2. \A title \in Titles : NewRow(title, "no") \in StreamRow
  BY DEF NewRow, StreamRow, Flags
<1>3. rows \in [DOMAIN rows -> StreamRow] /\ DOMAIN rows = Existing
  BY <1>1, <1>2
<1> QED BY <1>3 DEF CatalogInit, UpdateInv, RowsTyped, IdsKnown, CopyIsRow

LEMMA UpdatesStep == ASSUME UpdateInv, [CatalogNext]_catalogVars PROVE UpdateInv'
<1> USE DEF UpdateInv
<1>0. \A e \in Editors : draft[e] \in {NoDraft} \cup Edits
  BY DEF RowsTyped
(* The manager's own statements, and those that leave drafts alone. *)
<1>1. ASSUME NEW i \in Ids, NEW title \in Titles, NEW private \in Flags,
             CreateStream(i, title, private)
      PROVE  UpdateInv'
  <2>1. NewRow(title, private) \in StreamRow
    BY DEF NewRow, StreamRow, Flags
  <2>2. /\ DOMAIN rows' = DOMAIN rows \cup {i} /\ known' = known \cup {i} /\ i \notin known
        /\ rows' \in [DOMAIN rows' -> StreamRow] /\ \A j \in DOMAIN rows : rows'[j] = rows[j]
        /\ writes' \in Nat /\ UNCHANGED <<draft, outdated>>
    BY <1>1, <2>1 DEF CreateStream, Write, RowsTyped, IdsKnown
  <2> QED BY <2>2 DEF RowsTyped, IdsKnown, CopyIsRow
<1>2. ASSUME NEW i \in Ids, DeleteStream(i) PROVE UpdateInv'
  <2>1. /\ DOMAIN rows' = DOMAIN rows \ {i} /\ \A j \in DOMAIN rows' : rows'[j] = rows[j]
        /\ rows' \in [DOMAIN rows' -> StreamRow]
        /\ writes' \in Nat /\ UNCHANGED <<draft, known, outdated>>
    BY <1>2 DEF DeleteStream, Write, RowsTyped
  <2> QED BY <2>1 DEF RowsTyped, IdsKnown, CopyIsRow
<1>3. ASSUME NEW i \in Ids, RowLive(i) \/ RowOffline(i) \/ CountViewer(i) PROVE UpdateInv'
  <2> DEFINE new == rows'[i]
  <2>1. /\ DOMAIN rows' = DOMAIN rows /\ new \in StreamRow
        /\ new.title = rows[i].title /\ new.private = rows[i].private
        /\ \A j \in DOMAIN rows \ {i} : rows'[j] = rows[j]
        /\ rows' \in [DOMAIN rows -> StreamRow]
        /\ writes' \in Nat /\ UNCHANGED <<draft, known, outdated>>
    <3>0. rows \in [DOMAIN rows -> StreamRow] /\ i \in DOMAIN rows /\ writes \in Nat
      BY <1>3 DEF RowLive, RowOffline, CountViewer, RowsTyped
    <3>1. PICK to \in StreamRow : /\ to.title = rows[i].title /\ to.private = rows[i].private
                                 /\ rows' = [rows EXCEPT ![i] = to]
      <4> DEFINE row == rows[i]
      <4>0. row \in StreamRow
        BY <3>0
      <4>1. CASE RowLive(i)
        <5> DEFINE now == writes + 1
                   to == [row EXCEPT !.live = TRUE, !.started = now]
        <5>0. now \in Nat
          BY <3>0
        <5>2. rows' = [rows EXCEPT ![i] = to]
          BY <3>0, <4>1 DEF RowLive
        <5> HIDE DEF now
        <5>1. to \in StreamRow /\ to.title = row.title /\ to.private = row.private
          BY <4>0, <5>0 DEF StreamRow
        <5> QED BY <5>1, <5>2
      <4>2. CASE RowOffline(i)
        <5> DEFINE to == [row EXCEPT !.live = FALSE]
        <5>1. to \in StreamRow /\ to.title = row.title /\ to.private = row.private
          BY <4>0 DEF StreamRow
        <5>2. rows' = [rows EXCEPT ![i] = to]
          BY <3>0, <4>2 DEF RowOffline
        <5> QED BY <5>1, <5>2
      <4>3. CASE CountViewer(i)
        <5> DEFINE to == [row EXCEPT !.viewers = @ + 1]
        <5>1. to \in StreamRow /\ to.title = row.title /\ to.private = row.private
          BY <4>0 DEF StreamRow
        <5>2. rows' = [rows EXCEPT ![i] = to]
          BY <3>0, <4>3 DEF CountViewer
        <5> QED BY <5>1, <5>2
      <4> QED BY <1>3, <4>1, <4>2, <4>3
    <3>2. writes' \in Nat /\ UNCHANGED <<draft, known, outdated>>
      BY <1>3, <3>0 DEF RowLive, RowOffline, CountViewer, Write
    <3> QED BY <3>0, <3>1, <3>2
  <2> HIDE DEF new
  <2>2. \A j \in DOMAIN rows : rows'[j].title = rows[j].title /\ rows'[j].private = rows[j].private
    BY <2>1 DEF new
  <2> QED BY <2>1, <2>2 DEF RowsTyped, IdsKnown, CopyIsRow
<1>4. ASSUME NEW e \in Editors, NEW i \in Ids, NEW field, NEW value,
             \/ field = "title" /\ value \in Titles
             \/ field = "private" /\ value \in Flags,
             ReadForUpdate(e, i, field, value)
      PROVE  UpdateInv'
  <2> DEFINE d == [id |-> i, copy |-> rows[i], field |-> field, value |-> value]
  <2>1. i \in DOMAIN rows /\ rows[i] \in StreamRow
    BY <1>4 DEF ReadForUpdate, RowsTyped
  <2>2. d \in Edits /\ d.id = i /\ d.copy = rows[i]
    BY <1>4, <2>1 DEF Edits
  <2>3. draft' = [draft EXCEPT ![e] = d] /\ outdated' = outdated \ {e}
        /\ UNCHANGED <<rows, writes, known>>
    BY <1>4 DEF ReadForUpdate
  <2> HIDE DEF d
  <2>4. /\ draft' \in [Editors -> {NoDraft} \cup Edits] /\ draft'[e] = d
        /\ \A p \in Editors \ {e} : draft'[p] = draft[p]
    BY <2>2, <2>3 DEF RowsTyped
  <2> QED BY <2>1, <2>2, <2>3, <2>4 DEF RowsTyped, IdsKnown, CopyIsRow
<1>5. ASSUME NEW e \in Editors, WriteUpdate(e) PROVE UpdateInv'
  <2> DEFINE i == draft[e].id
  <2>1. /\ draft' \in [Editors -> {NoDraft} \cup Edits] /\ draft'[e] = NoDraft
        /\ \A p \in Editors \ {e} : draft'[p] = draft[p]
        /\ writes' \in Nat /\ known' = known
        /\ outdated' = (outdated \cup Behind(e)) \ {e}
    BY <1>5 DEF WriteUpdate, Write, RowsTyped
  <2>2. /\ DOMAIN rows' = DOMAIN rows /\ rows' \in [DOMAIN rows -> StreamRow]
        /\ \A j \in DOMAIN rows \ {i} : rows'[j] = rows[j]
    <3>1. CASE i \in DOMAIN rows
      BY <1>5, <3>1, RowWritten
    <3>2. CASE i \notin DOMAIN rows
      BY <1>5, <3>2 DEF WriteUpdate, RowsTyped
    <3> QED BY <3>1, <3>2
  <2>3. \A p \in Editors \ {e} : p \notin outdated' /\ draft[p] # NoDraft =>
                                    draft[p].id # i /\ p \notin outdated
    BY <2>1 DEF Behind
  <2> HIDE DEF i
  <2>4. RowsTyped' /\ IdsKnown'
    BY <2>1, <2>2 DEF RowsTyped, IdsKnown
  <2>5. CopyIsRow'
    BY <2>1, <2>2, <2>3 DEF CopyIsRow
  <2> QED BY <2>4, <2>5
<1>6. ASSUME NEW e \in Editors, UpdateFails(e) PROVE UpdateInv'
  <2>1. /\ draft' \in [Editors -> {NoDraft} \cup Edits] /\ draft'[e] = NoDraft
        /\ \A p \in Editors \ {e} : draft'[p] = draft[p]
        /\ outdated' = outdated \ {e} /\ UNCHANGED <<rows, writes, known>>
    BY <1>6 DEF UpdateFails, RowsTyped
  <2> QED BY <2>1 DEF RowsTyped, IdsKnown, CopyIsRow
<1>7. ASSUME UNCHANGED <<rows, draft, writes, known, outdated>> PROVE UpdateInv'
  BY <1>7 DEF RowsTyped, IdsKnown, CopyIsRow
<1> QED BY <1>1, <1>2, <1>3, <1>4, <1>5, <1>6, <1>7
        DEF CatalogNext, StartWalk, NextPage, EndWalk, catalogVars

-----------------------------------------------------------------------------
(* UpdatesKept: an update changes what it was asked to change, and takes   *)
(* an editable field back only when another update overtook it.            *)
THEOREM UpdatesAreKept == CatalogSpec => UpdatesKept
<1> DEFINE Kept(e) ==
      LET i == draft[e].id
      IN  draft[e] # NoDraft /\ draft'[e] = NoDraft /\ i \in DOMAIN rows =>
            /\ rows'[i] = [rows[i] EXCEPT !.title = rows'[i].title,
                                          !.private = rows'[i].private]
            /\ \A field \in {"title", "private"} :
                 rows'[i][field] # rows[i][field] =>
                   field = draft[e].field \/ e \in outdated
<1>1. CatalogSpec => []UpdateInv
  BY UpdateInit, UpdatesStep, PTL DEF CatalogSpec
<1>2. ASSUME UpdateInv, [CatalogNext]_catalogVars, NEW e \in Editors,
             draft[e] # NoDraft, draft'[e] = NoDraft, draft[e].id \in DOMAIN rows
      PROVE  Kept(e)
  <2> DEFINE i == draft[e].id
             row == rows[i]
  <2>0. row \in StreamRow /\ draft \in [Editors -> {NoDraft} \cup Edits]
    BY <1>2 DEF UpdateInv, RowsTyped
  <2>1. CASE UNCHANGED rows
    BY <2>0, <2>1 DEF StreamRow
  <2>2. CASE WriteUpdate(e)
    <3> DEFINE title == Edited(e).title
               private == Edited(e).private
               new == [row EXCEPT !.title = title, !.private = private]
    <3>1. rows'[i] = new
      BY <1>2, <2>2, RowWritten DEF UpdateInv
    <3>2. e \notin outdated => draft[e].copy.title = row.title /\ draft[e].copy.private = row.private
      BY <1>2 DEF UpdateInv, CopyIsRow
    <3>3. /\ title # draft[e].copy.title => draft[e].field = "title"
          /\ private # draft[e].copy.private => draft[e].field = "private"
      BY <1>2, RowEdited DEF UpdateInv
    <3> HIDE DEF title, private, row
    <3>4. new.title = title /\ new.private = private
          /\ new = [row EXCEPT !.title = new.title, !.private = new.private]
      BY <2>0 DEF StreamRow
    <3> HIDE DEF new
    <3>5. \A field \in {"title", "private"} :
             new[field] # row[field] => field = draft[e].field \/ e \in outdated
      BY <3>2, <3>3, <3>4
    <3> QED BY <3>1, <3>4, <3>5 DEF row
  <2>3. UNCHANGED rows \/ WriteUpdate(e)
    <3>1. ASSUME NEW d \in Editors, NEW j, NEW field, NEW value,
                 ReadForUpdate(d, j, field, value)
          PROVE  UNCHANGED rows
      BY <3>1 DEF ReadForUpdate
    <3>2. ASSUME UNCHANGED draft PROVE FALSE
      BY <1>2, <3>2
    <3>3. ASSUME NEW d \in Editors, WriteUpdate(d) PROVE d = e
      BY <1>2, <2>0, <3>3 DEF WriteUpdate
    <3> QED BY <1>2, <3>1, <3>2, <3>3
            DEF CatalogNext, CreateStream, DeleteStream, RowLive, RowOffline, CountViewer,
                UpdateFails, StartWalk, NextPage, EndWalk, catalogVars
  <2> QED BY <2>1, <2>2, <2>3
<1>3. ASSUME UpdateInv, [CatalogNext]_catalogVars
      PROVE  [\A e \in Editors : Kept(e)]_catalogVars
  BY <1>2, <1>3
<1> QED BY <1>1, <1>3, PTL DEF CatalogSpec, UpdatesKept
-----------------------------------------------------------------------------
(* Two live rows were started by two writes. *)
StartsApart ==
    \A i, j \in DOMAIN rows : i # j /\ rows[i].live /\ rows[j].live => rows[i].started # rows[j].started

(* The order of live rows is strict and total. *)
LEMMA OrderIsStrict ==
    ASSUME rows \in [DOMAIN rows -> StreamRow], StartsApart
    PROVE  /\ \A i \in LivePublic : ~Before(i, i)
           /\ \A i, j, k \in LivePublic : Before(i, j) /\ Before(j, k) => Before(i, k)
           /\ \A i, j \in LivePublic : i = j \/ Before(i, j) \/ Before(j, i)
<1>1. \A i \in LivePublic : i \in DOMAIN rows /\ rows[i].live /\ rows[i].viewers \in Nat /\ rows[i].started \in Nat
  BY DEF LivePublic, StreamRow
<1>2. \A i \in LivePublic : ~Before(i, i)
  BY <1>1 DEF Before
<1>3. \A i, j, k \in LivePublic : Before(i, j) /\ Before(j, k) => Before(i, k)
  BY <1>1 DEF Before
<1>4. \A i, j \in LivePublic : i = j \/ Before(i, j) \/ Before(j, i)
  BY <1>1 DEF Before, StartsApart
<1> QED BY <1>2, <1>3, <1>4

(* A row's place is one more than the rows before it: the sorted sequence  *)
(* that list_streams cuts its pages from exists.                           *)
LEMMA OrderExists ==
    ASSUME rows \in [DOMAIN rows -> StreamRow], StartsApart, IsFiniteSet(LivePublic)
    PROVE  LET count == Cardinality(LivePublic)
           IN  /\ count \in Nat
               /\ Order \in [1..count -> LivePublic]
               /\ \A m, n \in 1..count : m < n => Before(Order[m], Order[n])
<1> DEFINE S == LivePublic
           count == Cardinality(S)
           Above(i) == {j \in S : Before(j, i)}
           place == [i \in S |-> Cardinality(Above(i)) + 1]
           sorted == [m \in 1..count |-> CHOOSE i \in S : place[i] = m]
<1>1. /\ \A i \in S : ~Before(i, i)
      /\ \A i, j, k \in S : Before(i, j) /\ Before(j, k) => Before(i, k)
      /\ \A i, j \in S : i = j \/ Before(i, j) \/ Before(j, i)
  BY OrderIsStrict
<1>2. count \in Nat
  BY FS_CardinalityType
<1>3. ASSUME NEW i \in S
      PROVE  IsFiniteSet(Above(i)) /\ Cardinality(Above(i)) \in 0..(count - 1)
  <2>1. Above(i) \in SUBSET S /\ Above(i) # S
    BY <1>1, <1>3
  <2> HIDE DEF Above, S
  <2>2. IsFiniteSet(Above(i)) /\ Cardinality(Above(i)) <= count /\ Cardinality(Above(i)) # count
    BY <2>1, FS_Subset DEF S
  <2>3. Cardinality(Above(i)) \in Nat
    BY <2>2, FS_CardinalityType
  <2> QED BY <1>2, <2>2, <2>3
<1>4. ASSUME NEW i \in S, NEW j \in S, Before(i, j)
      PROVE  place[i] < place[j]
  <2>1. Above(i) \in SUBSET Above(j) /\ Above(i) # Above(j)
    BY <1>1, <1>4
  <2>2. /\ IsFiniteSet(Above(j)) /\ Cardinality(Above(i)) \in Nat /\ Cardinality(Above(j)) \in Nat
    <3> HIDE DEF Above, S, count
    <3>1. /\ IsFiniteSet(Above(j)) /\ Cardinality(Above(j)) \in 0..(count - 1)
          /\ Cardinality(Above(i)) \in 0..(count - 1)
      BY <1>3
    <3> QED BY <1>2, <3>1
  <2>3. place[i] = Cardinality(Above(i)) + 1 /\ place[j] = Cardinality(Above(j)) + 1
    OBVIOUS
  <2> HIDE DEF Above, place
  <2>4. Cardinality(Above(i)) <= Cardinality(Above(j)) /\ Cardinality(Above(i)) # Cardinality(Above(j))
    BY <2>1, <2>2, FS_Subset
  <2> QED BY <2>2, <2>3, <2>4
<1>5. place \in Surjection(S, 1..count)
  <2>1. place \in [S -> 1..count]
    <3> HIDE DEF Above, S, count
    <3>1. \A i \in S : Cardinality(Above(i)) + 1 \in 1..count
      BY <1>2, <1>3
    <3> QED BY <3>1
  <2>2. \A i, j \in S : place[i] = place[j] => i = j
    <3> TAKE i \in S, j \in S
    <3>1. place[i] \in 1..count /\ place[j] \in 1..count
      BY <2>1
    <3> HIDE DEF place
    <3>2. Before(i, j) => place[i] < place[j]
      BY <1>4
    <3>3. Before(j, i) => place[j] < place[i]
      BY <1>4
    <3> QED BY <1>1, <3>1, <3>2, <3>3
  <2> HIDE DEF place
  <2>3. place \in Injection(S, 1..count)
    BY <2>1, <2>2 DEF Injection, IsInjective
  <2>4. IsFiniteSet(1..count) /\ Cardinality(1..count) = count
    BY <1>2, FS_Interval
  <2> QED BY <2>3, <2>4, FS_Injection
<1>6. \A m \in 1..count : sorted[m] \in S /\ place[sorted[m]] = m
  <2> HIDE DEF place
  <2>1. \A m \in 1..count : \E i \in S : place[i] = m
    BY <1>5 DEF Surjection
  <2> QED BY <2>1
<1>7. sorted \in [1..count -> S]
  <2> HIDE DEF place
  <2> QED BY <1>6
<1>8. ASSUME NEW m \in 1..count, NEW n \in 1..count, m < n
      PROVE  Before(sorted[m], sorted[n])
  <2> HIDE DEF place, sorted, Above
  <2>1. Before(sorted[n], sorted[m]) => n < m
    BY <1>4, <1>6
  <2> QED BY <1>1, <1>2, <1>6, <1>8, <2>1
<1> HIDE DEF place, sorted, Above
<1>9. \E s \in [1..count -> S] : \A m, n \in 1..count : m < n => Before(s[m], s[n])
  BY <1>7, <1>8
<1> QED BY <1>2, <1>9 DEF Order
-----------------------------------------------------------------------------
(* What the rows say of the writes so far. *)
RowsWritten ==
    /\ writes <= MaxWrites
    /\ \A i \in DOMAIN rows : rows[i].started <= writes /\ rows[i].viewers <= writes
    /\ StartsApart
    /\ known \subseteq Ids /\ outdated \subseteq Editors

LEMMA WrittenStep ==
    ASSUME UpdateInv, UpdateInv', RowsWritten, [CatalogNext]_catalogVars
    PROVE  RowsWritten'
<1>0. /\ rows \in [DOMAIN rows -> StreamRow] /\ writes \in Nat /\ MaxWrites \in Nat
      /\ \A i \in DOMAIN rows : rows[i].started \in Nat /\ rows[i].viewers \in Nat
  BY CatalogAssumption DEF UpdateInv, RowsTyped, StreamRow
<1> USE DEF RowsWritten, StartsApart
(* No row goes live, and no number of one grows but by a write. *)
<1>a. ASSUME writes' \in {writes, writes + 1}, writes' <= MaxWrites,
             known' \subseteq Ids, outdated' \subseteq Editors,
             \A i \in DOMAIN rows' :
                \/ ~rows'[i].live /\ rows'[i].started = 0 /\ rows'[i].viewers = 0
                \/ /\ i \in DOMAIN rows /\ (rows'[i].live => rows[i].live)
                   /\ rows'[i].started = rows[i].started
                   /\ \/ rows'[i].viewers = rows[i].viewers
                      \/ rows'[i].viewers = rows[i].viewers + 1 /\ writes' = writes + 1
      PROVE  RowsWritten'
  <2>1. \A i \in DOMAIN rows' : rows'[i].started <= writes' /\ rows'[i].viewers <= writes'
    BY <1>0, <1>a
  <2>2. \A i \in DOMAIN rows' : rows'[i].live =>
          i \in DOMAIN rows /\ rows[i].live /\ rows'[i].started = rows[i].started
    BY <1>a
  <2> QED BY <1>a, <2>1, <2>2
<1>1. ASSUME NEW i \in Ids, NEW title \in Titles, NEW private \in Flags,
             CreateStream(i, title, private)
      PROVE  RowsWritten'
  <2>1. \A j \in DOMAIN rows' :
          \/ ~rows'[j].live /\ rows'[j].started = 0 /\ rows'[j].viewers = 0
          \/ j \in DOMAIN rows /\ rows'[j] = rows[j]
    BY <1>1 DEF CreateStream, NewRow
  <2>2. writes' = writes + 1 /\ writes' <= MaxWrites /\ known' \subseteq Ids /\ outdated' = outdated
    BY <1>0, <1>1 DEF CreateStream, Write
  <2> QED BY <1>a, <2>1, <2>2
<1>2. ASSUME NEW i \in Ids, DeleteStream(i) PROVE RowsWritten'
  <2>1. \A j \in DOMAIN rows' : j \in DOMAIN rows /\ rows'[j] = rows[j]
    BY <1>2 DEF DeleteStream
  <2>2. writes' = writes + 1 /\ writes' <= MaxWrites /\ known' = known /\ outdated' = outdated
    BY <1>0, <1>2 DEF DeleteStream, Write
  <2> QED BY <1>a, <2>1, <2>2
<1>3. ASSUME NEW i \in Ids, RowLive(i) PROVE RowsWritten'
  <2> DEFINE now == writes + 1
  <2>1. /\ writes' = now /\ now <= MaxWrites /\ now \in Nat
        /\ known' = known /\ outdated' = outdated
    BY <1>0, <1>3 DEF RowLive, Write
  <2>2. /\ DOMAIN rows' = DOMAIN rows /\ i \in DOMAIN rows
        /\ \A j \in DOMAIN rows \ {i} : rows'[j] = rows[j]
        /\ rows'[i].started = now /\ rows'[i].viewers = rows[i].viewers
    <3>1. rows' = [rows EXCEPT ![i] = [rows[i] EXCEPT !.live = TRUE, !.started = now]]
      BY <1>0, <1>3 DEF RowLive
    <3>2. i \in DOMAIN rows /\ rows[i] \in StreamRow
      BY <1>0, <1>3 DEF RowLive
    <3> HIDE DEF now
    <3> QED BY <1>0, <3>1, <3>2 DEF StreamRow
  <2>3. \A j \in DOMAIN rows : rows[j].started < now /\ rows[j].viewers < now
    BY <1>0, <2>1
  <2> HIDE DEF now
  <2>4. \A j \in DOMAIN rows' : rows'[j].started <= now /\ rows'[j].viewers <= now
    BY <1>0, <2>1, <2>2, <2>3
  <2>5. StartsApart'
    BY <1>0, <2>1, <2>2, <2>3
  <2> QED BY <2>1, <2>4, <2>5
<1>4. ASSUME NEW i \in Ids, RowOffline(i) \/ CountViewer(i) PROVE RowsWritten'
  <2>1. writes' = writes + 1 /\ writes' <= MaxWrites /\ known' = known /\ outdated' = outdated
    BY <1>0, <1>4 DEF RowOffline, CountViewer, Write
  <2>2. /\ DOMAIN rows' = DOMAIN rows /\ i \in DOMAIN rows /\ rows[i] \in StreamRow
        /\ \A j \in DOMAIN rows \ {i} : rows'[j] = rows[j]
    BY <1>0, <1>4 DEF RowOffline, CountViewer
  <2>3. CASE RowOffline(i)
    <3>1. rows' = [rows EXCEPT ![i] = [rows[i] EXCEPT !.live = FALSE]]
      BY <2>3 DEF RowOffline
    <3>2. ~rows'[i].live /\ rows'[i].started = rows[i].started /\ rows'[i].viewers = rows[i].viewers
      BY <1>0, <2>2, <3>1 DEF StreamRow
    <3> QED BY <1>a, <2>1, <2>2, <3>2
  <2>4. CASE CountViewer(i)
    <3>1. rows' = [rows EXCEPT ![i] = [rows[i] EXCEPT !.viewers = @ + 1]]
      BY <2>4 DEF CountViewer
    <3>2. /\ rows'[i].live = rows[i].live /\ rows'[i].started = rows[i].started
          /\ rows'[i].viewers = rows[i].viewers + 1
      BY <1>0, <2>2, <3>1 DEF StreamRow
    <3> QED BY <1>a, <2>1, <2>2, <3>2
  <2> QED BY <1>4, <2>3, <2>4
<1>5. ASSUME NEW e \in Editors, NEW i \in Ids, NEW field, NEW value,
             ReadForUpdate(e, i, field, value)
      PROVE  RowsWritten'
  BY <1>5 DEF ReadForUpdate
<1>6. ASSUME NEW e \in Editors, WriteUpdate(e) PROVE RowsWritten'
  <2> DEFINE i == draft[e].id
  <2>1. writes' = writes + 1 /\ writes' <= MaxWrites /\ known' = known
    BY <1>0, <1>6 DEF WriteUpdate, Write
  <2>2. outdated' \subseteq Editors
    BY <1>6 DEF WriteUpdate, Behind
  <2>3. \A j \in DOMAIN rows' :
          /\ j \in DOMAIN rows /\ rows'[j].live = rows[j].live
          /\ rows'[j].started = rows[j].started /\ rows'[j].viewers = rows[j].viewers
    <3>1. CASE i \in DOMAIN rows
      <4>1. /\ rows' \in [DOMAIN rows -> StreamRow]
            /\ \A j \in DOMAIN rows \ {i} : rows'[j] = rows[j]
            /\ rows'[i] = [rows[i] EXCEPT !.title = Edited(e).title, !.private = Edited(e).private]
        BY <1>6, <3>1, RowWritten DEF UpdateInv
      <4>2. rows[i] \in StreamRow
        BY <1>0, <3>1
      <4> HIDE DEF i
      <4>3. /\ rows'[i].live = rows[i].live
            /\ rows'[i].started = rows[i].started /\ rows'[i].viewers = rows[i].viewers
        BY <4>1, <4>2 DEF StreamRow
      <4> QED BY <3>1, <4>1, <4>3
    <3>2. CASE i \notin DOMAIN rows
      BY <1>6, <3>2 DEF WriteUpdate
    <3> QED BY <3>1, <3>2
  <2> QED BY <1>a, <2>1, <2>2, <2>3
<1>7. ASSUME NEW e \in Editors, UpdateFails(e) PROVE RowsWritten'
  BY <1>7 DEF UpdateFails
<1>8. ASSUME UNCHANGED <<rows, writes, known, outdated>> PROVE RowsWritten'
  BY <1>8
<1> QED BY <1>1, <1>2, <1>3, <1>4, <1>5, <1>6, <1>7, <1>8
        DEF CatalogNext, StartWalk, NextPage, EndWalk, catalogVars

(* The listing holds ids, and its offsets fit Word. *)
LEMMA LiveOrder == UpdateInv /\ RowsWritten =>
    /\ Order \in Seq(Ids) /\ Len(Order) = Cardinality(LivePublic)
    /\ Len(Order) + MaxLimit <= Word
<1> SUFFICES ASSUME UpdateInv, RowsWritten
             PROVE  /\ Order \in Seq(Ids) /\ Len(Order) = Cardinality(LivePublic)
                    /\ Len(Order) + MaxLimit <= Word
  OBVIOUS
<1>1. LivePublic \in SUBSET Ids
  BY DEF LivePublic, UpdateInv, IdsKnown, RowsWritten
<1> DEFINE S == LivePublic
           count == Cardinality(S)
<1>2. IsFiniteSet(S) /\ count <= Cardinality(Ids) /\ Cardinality(Ids) \in Nat
  BY <1>1, CatalogAssumption, FS_Subset, FS_CardinalityType
<1>3. count \in Nat /\ Order \in [1..count -> S]
  BY <1>2, OrderExists DEF UpdateInv, RowsTyped, RowsWritten
<1> HIDE DEF S
<1>4. Order \in Seq(Ids) /\ Len(Order) = count
  <2> HIDE DEF count
  <2>1. Order \in [1..count -> Ids]
    BY <1>1, <1>3 DEF S
  <2> QED BY <1>3, <2>1
<1> HIDE DEF count
<1>5. count + MaxLimit <= Word
  BY <1>2, <1>3, CatalogAssumption
<1> QED BY <1>4, <1>5 DEF count, S

(* What two pages in a row are together. *)
LEMMA PiecesJoin ==
    ASSUME NEW T, NEW s \in Seq(T), NEW a \in 0..Len(s), NEW b \in a..Len(s)
    PROVE  SubSeq(s, 1, a) \o SubSeq(s, a + 1, b) = SubSeq(s, 1, b)
<1>1. Len(s) \in Nat /\ \A i \in 1..Len(s) : s[i] \in T
  OBVIOUS
<1>2. /\ SubSeq(s, 1, a) \in Seq(T) /\ Len(SubSeq(s, 1, a)) = a
      /\ \A i \in 1..a : SubSeq(s, 1, a)[i] = s[i]
  BY <1>1
<1>3. /\ SubSeq(s, a + 1, b) \in Seq(T) /\ Len(SubSeq(s, a + 1, b)) = b - a
      /\ \A i \in 1..(b - a) : SubSeq(s, a + 1, b)[i] = s[a + i]
  BY <1>1
<1>4. /\ SubSeq(s, 1, b) \in Seq(T) /\ Len(SubSeq(s, 1, b)) = b
      /\ \A i \in 1..b : SubSeq(s, 1, b)[i] = s[i]
  BY <1>1
<1> DEFINE p == SubSeq(s, 1, a)
           q == SubSeq(s, a + 1, b)
           r == SubSeq(s, 1, b)
<1> HIDE DEF p, q, r
<1>5. p \o q \in Seq(T) /\ Len(p \o q) = b
  BY <1>1, <1>2, <1>3 DEF p, q
<1>6. \A i \in 1..b : (p \o q)[i] = r[i]
  BY <1>1, <1>2, <1>3, <1>4 DEF p, q, r
<1>7. r \in Seq(T) /\ Len(r) = b
  BY <1>4 DEF r
<1> DEFINE w == p \o q
<1>8. w = r
  <2>1. w \in Seq(T) /\ Len(w) = Len(r) /\ \A i \in 1..Len(w) : w[i] = r[i]
    BY <1>5, <1>6, <1>7
  <2> HIDE DEF w
  <2> QED BY <1>7, <2>1
<1> QED BY <1>8 DEF p, q, r

(* A walk has read the rows up to its page, and has not gone past the last *)
(* row by more than a page: the offset of the next page does not wrap.     *)
WalkInv ==
    /\ walk \in [limit : 0..MaxLimit, page : Nat, got : Seq(Ids)]
    /\ walk.page = 0 \/ walk.page * walk.limit < Len(Order) + walk.limit
    /\ PagesTile

LEMMA WalkMoves ==
    ASSUME UpdateInv, RowsWritten, WalkInv, NextPage
    PROVE  WalkInv'
<1> DEFINE o == Order
           l == walk.limit
           x == walk.page * l
           items == SubSeq(o, x + 1, Least(x + l, Len(o)))
<1>1. /\ o \in Seq(Ids) /\ Len(o) + MaxLimit <= Word /\ Len(o) \in Nat
      /\ MaxLimit \in Nat \ {0} /\ Word \in Nat \ {0} /\ l \in 0..MaxLimit /\ walk.page \in Nat
  BY LiveOrder, CatalogAssumption DEF WalkInv
<1>2. x \in Nat /\ (walk.page + 1) * l = x + l
      /\ (walk.page = 0 => x = 0)
  BY <1>1
<1>3. x = 0 \/ x < Len(o) + l
  BY <1>2 DEF WalkInv
<1> HIDE DEF o, x, l
<1>4. x < Word
  BY <1>1, <1>2, <1>3
<1>5. Offset(walk.page + 1, l) = x
  <2>1. x % Word = x
    BY <1>1, <1>2, <1>4
  <2>2. ((walk.page + 1) - 1) * l = x
    BY <1>1 DEF x
  <2> QED BY <2>1, <2>2, Zenon DEF Offset
<1>6. Page(walk.page + 1, l) = items
  BY <1>5 DEF Page, o
<1>7. x < Len(o)
  <2>1. items # <<>>
    BY <1>6 DEF NextPage, l
  <2>2. CASE x >= Len(o)
    <3>1. x + 1 > Least(x + l, Len(o)) /\ Least(x + l, Len(o)) \in Nat
      BY <1>1, <1>2, <2>2 DEF Least
    <3>2. items = <<>>
      BY <1>1, <1>2, <3>1
    <3> QED BY <2>1, <3>2
  <2> QED BY <1>1, <1>2, <2>2
<1> DEFINE next == Least(x + l, Len(o))
<1>8. next \in x..Len(o)
  BY <1>1, <1>2, <1>7 DEF Least
<1>9. walk.got = SubSeq(o, 1, x)
  BY <1>1, <1>2, <1>7 DEF WalkInv, PagesTile, NextPage, Least, o, x, l
<1>10. /\ walk' = [walk EXCEPT !.page = @ + 1, !.got = @ \o items]
       /\ UNCHANGED rows
  BY <1>6 DEF NextPage, l
<1> HIDE DEF next
<1>11. items = SubSeq(o, x + 1, next)
  BY DEF next
<1> HIDE DEF items
<1>12. walk.got \o items = SubSeq(o, 1, next)
  <2>1. x \in 0..Len(o)
    BY <1>1, <1>2, <1>7
  <2> QED BY <1>1, <1>8, <1>9, <1>11, <2>1, PiecesJoin
<1> DEFINE got == SubSeq(o, 1, next)
<1>13. got \in Seq(Ids)
  BY <1>1, <1>2, <1>8
<1> HIDE DEF got
<1>14. /\ walk' = [limit |-> l, page |-> walk.page + 1, got |-> got]
       /\ walk.page + 1 \in Nat
  <2>1. walk \in [limit : 0..MaxLimit, page : Nat, got : Seq(Ids)]
    BY DEF WalkInv
  <2>2. walk.got \o items = got
    BY <1>12 DEF got
  <2>3. walk' = [walk EXCEPT !.page = walk.page + 1, !.got = got]
    BY <1>10, <2>1, <2>2
  <2> DEFINE page == walk.page + 1
  <2>4. page \in Nat
    BY <2>1
  <2> HIDE DEF page
  <2>5. walk' = [limit |-> walk.limit, page |-> page, got |-> got]
    BY <2>1, <2>3 DEF page
  <2> QED BY <2>4, <2>5 DEF l, page
<1>15. walk'.limit = l /\ walk'.page = walk.page + 1 /\ walk'.got = got
       /\ walk' \in [limit : 0..MaxLimit, page : Nat, got : Seq(Ids)]
  BY <1>1, <1>13, <1>14
<1>16. Order' = o
  BY <1>10 DEF Order, LivePublic, Before, o
<1>17. walk'.page * walk'.limit = x + l
  BY <1>2, <1>15
<1>18. x + l < Len(o) + l
  BY <1>1, <1>2, <1>7
<1>19. walk'.got = SubSeq(Order, 1, Least(walk.page * walk.limit, Len(Order)))'
  BY <1>15, <1>16, <1>17 DEF got, next, Least
<1> QED BY <1>15, <1>16, <1>17, <1>18, <1>19 DEF WalkInv, PagesTile

LEMMA WalkStep ==
    ASSUME UpdateInv, RowsWritten, WalkInv, [CatalogNext]_catalogVars
    PROVE  WalkInv'
<1>a. ASSUME walk' = NoWalk PROVE WalkInv'
  <2>1. walk' \in [limit : 0..MaxLimit, page : Nat, got : Seq(Ids)]
    BY <1>a, CatalogAssumption DEF NoWalk
  <2>2. walk'.page = 0
    BY <1>a DEF NoWalk
  <2> QED BY <1>a, <2>1, <2>2 DEF WalkInv, PagesTile
<1>b. ASSUME UNCHANGED <<rows, walk>> PROVE WalkInv'
  <2>1. Order' = Order
    BY <1>b DEF Order, LivePublic, Before
  <2> QED BY <1>b, <2>1 DEF WalkInv, PagesTile, Least
<1>1. ASSUME NEW limit \in 0..(MaxLimit + 1), StartWalk(limit) PROVE WalkInv'
  <2>1. walk' = [limit |-> Limit(limit), page |-> 0, got |-> <<>>]
    BY <1>1 DEF StartWalk, NoWalk
  <2>2. Limit(limit) \in 0..MaxLimit
    BY CatalogAssumption DEF Limit, Least
  <2>3. Order \in Seq(Ids) /\ Len(Order) \in Nat /\ UNCHANGED rows
    BY <1>1, LiveOrder DEF StartWalk
  <2>4. /\ walk'.page = 0 /\ walk'.limit = Limit(limit) /\ walk'.got = <<>>
        /\ walk' \in [limit : 0..MaxLimit, page : Nat, got : Seq(Ids)]
    BY <2>1, <2>2
  <2>5. Order' = Order
    BY <2>3 DEF Order, LivePublic, Before
  <2>6. Least(0, Len(Order)) = 0 /\ SubSeq(Order, 1, 0) = <<>>
    BY <2>3 DEF Least
  <2>7. walk'.page * walk'.limit = 0
    BY <2>2, <2>4
  <2> QED BY <2>4, <2>5, <2>6, <2>7 DEF WalkInv, PagesTile, Least
<1> QED BY <1>a, <1>b, <1>1, WalkMoves
        DEF CatalogNext, CreateStream, DeleteStream, RowLive, RowOffline, CountViewer, WriteUpdate,
            Write, ReadForUpdate, UpdateFails, EndWalk, catalogVars

LEMMA CatalogAtFirst == CatalogInit => UpdateInv /\ RowsWritten /\ WalkInv
<1> SUFFICES ASSUME CatalogInit PROVE UpdateInv /\ RowsWritten /\ WalkInv
  OBVIOUS
<1>1. UpdateInv
  BY UpdateInit
<1>2. \A i \in DOMAIN rows : ~rows[i].live /\ rows[i].started = 0 /\ rows[i].viewers = 0
  BY DEF CatalogInit, NewRow
<1>3. RowsWritten
  BY <1>2, CatalogAssumption DEF CatalogInit, RowsWritten, StartsApart
<1>4. walk = NoWalk /\ walk \in [limit : 0..MaxLimit, page : Nat, got : Seq(Ids)] /\ walk.page = 0
  BY CatalogAssumption DEF CatalogInit, NoWalk
<1> QED BY <1>1, <1>3, <1>4 DEF WalkInv, PagesTile

LEMMA CatalogHolds == CatalogSpec => [](UpdateInv /\ RowsWritten /\ WalkInv)
<1>1. UpdateInv /\ RowsWritten /\ WalkInv /\ [CatalogNext]_catalogVars
        => (UpdateInv /\ RowsWritten /\ WalkInv)'
  BY UpdatesStep, WrittenStep, WalkStep
<1> QED BY <1>1, CatalogAtFirst, PTL DEF CatalogSpec

(* Rows and copies of rows keep their types, whatever is written when; the *)
(* columns that count writes never exceed them.                            *)
THEOREM CatalogTypeCorrect == CatalogSpec => []CatalogTypeOK
<1>1. UpdateInv /\ RowsWritten /\ WalkInv => CatalogTypeOK
  <2> SUFFICES ASSUME UpdateInv, RowsWritten, WalkInv PROVE CatalogTypeOK
    OBVIOUS
  <2>1. ASSUME NEW i \in DOMAIN rows
        PROVE  rows[i] \in [title : Titles, private : Flags, live : BOOLEAN,
                            started : 0..MaxWrites, viewers : 0..MaxWrites]
    <3>1. rows[i] \in StreamRow /\ writes \in Nat /\ writes <= MaxWrites /\ MaxWrites \in Nat
      BY CatalogAssumption DEF UpdateInv, RowsTyped, RowsWritten
    <3>2. rows[i].started \in 0..MaxWrites /\ rows[i].viewers \in 0..MaxWrites
      BY <3>1 DEF StreamRow, RowsWritten
    <3> QED BY <3>1, <3>2 DEF StreamRow
  <2>2. \A e \in Editors : draft[e] # NoDraft => draft[e].id \in Ids
    BY EditIsTyped DEF UpdateInv, RowsTyped
  <2>3. walk.limit \in 0..MaxLimit /\ walk.page \in Nat /\ walk.got \in Seq(Ids)
    BY DEF WalkInv
  <2>4. /\ DOMAIN rows \subseteq known /\ known \subseteq Ids /\ outdated \subseteq Editors
        /\ writes \in 0..MaxWrites
    BY CatalogAssumption DEF UpdateInv, RowsTyped, IdsKnown, RowsWritten
  <2> QED BY <2>1, <2>2, <2>3, <2>4 DEF CatalogTypeOK
<1> QED BY <1>1, CatalogHolds, PTL

(* Whatever the size of a page and the number of streams, a reader who     *)
(* walks the pages gets a beginning of the listing, none twice and none    *)
(* left out: the offset in u32 does not wrap before the pages are empty.   *)
THEOREM PagesDoTile == CatalogSpec => []PagesTile
<1>1. WalkInv => PagesTile
  BY DEF WalkInv
<1> QED BY <1>1, CatalogHolds, PTL

Sorted ==
    /\ Order \in [1..Cardinality(LivePublic) -> LivePublic]
    /\ \A m, n \in 1..Cardinality(LivePublic) : m < n => Before(Order[m], Order[n])

(* The listing that the pages are cut from is always there: the live       *)
(* public streams, each once, in the order of viewers and start.           *)
THEOREM ListingIsSorted == CatalogSpec => []Sorted
<1>1. UpdateInv /\ RowsWritten => Sorted
  <2> SUFFICES ASSUME UpdateInv, RowsWritten PROVE Sorted
    OBVIOUS
  <2>1. IsFiniteSet(LivePublic)
    <3>1. LivePublic \in SUBSET Ids
      BY DEF LivePublic, UpdateInv, IdsKnown, RowsWritten
    <3> QED BY <3>1, CatalogAssumption, FS_Subset
  <2> QED BY <2>1, OrderExists DEF UpdateInv, RowsTyped, RowsWritten, Sorted
<1> QED BY <1>1, CatalogHolds, PTL
=============================================================================
