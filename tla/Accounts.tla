------------------------------ MODULE Accounts ------------------------------
(***************************************************************************)
(* Local accounts, their sessions and their upload tokens: auth.py,        *)
(* routes_auth.py and the create-admin command.                            *)
(*                                                                         *)
(* A request is authenticated in a transaction of its own, and its handler *)
(* works with the identity that was read there.  Handlers lock the row of  *)
(* the user they are about.  Logging in and editing a user are two steps,  *)
(* taking the locks and committing; the other handlers are one.            *)
(*                                                                         *)
(* The rate limit and the expiry of a credential only refuse requests, and *)
(* a request may go unasked at any time, so that both are left out.        *)
(***************************************************************************)
EXTENDS Naturals, FiniteSets

CONSTANTS Humans,        \* accounts a person can have
          Services,      \* service accounts, which only have tokens
          Credentials,   \* rows of sessions and tokens
          AcctRequests,  \* requests that are in flight
          NoRequest,     \* the owner of a row that is not locked
          NoAccount,     \* the user of an unused credential and of an idle request
          NoCredential   \* the credential of a request that has none

Accts == Humans \cup Services

ASSUME AccountsAssumption == /\ NoRequest \notin AcctRequests
                             /\ NoAccount \notin Accts
                             /\ NoCredential \notin Credentials
                             /\ Humans \cap Services = {}
                             /\ IsFiniteSet(Accts)

VARIABLES acctUser,     \* users rows
          acctCred,     \* auth_sessions and access_tokens rows
          acctLock,     \* the request that holds a user's row
          acctRequest   \* the identity a request was given, and where its handler is

acctVars == <<acctUser, acctCred, acctLock, acctRequest>>

-----------------------------------------------------------------------------
\* known: somebody knows the password.
UserRow == [there : BOOLEAN, role : {"member", "admin"}, enabled : BOOLEAN,
            temporary : BOOLEAN, known : BOOLEAN]

\* late is history: everything the account had was revoked after the password or the
\* session was looked at that this credential, or this request, rests on.
CredentialRow == [kind : {"session", "token"}, user : Accts \cup {NoAccount},
                  state : {"unused", "live", "revoked"}, late : BOOLEAN]
AcctRequestState == [pc : {"idle", "ready", "login", "edit"},
                     user : Accts \cup {NoAccount},      \* who asks
                     role : {"member", "admin"},
                     restricted : BOOLEAN,               \* only password and logout are open
                     cred : Credentials \cup {NoCredential},
                     target : Accts \cup {NoAccount},    \* whom an edit is about
                     admins : SUBSET Accts,              \* the admins an edit has locked
                     late : BOOLEAN]

AcctIdle == [pc |-> "idle", user |-> NoAccount, role |-> "member", restricted |-> FALSE,
             cred |-> NoCredential, target |-> NoAccount, admins |-> {}, late |-> FALSE]

AcctTypeOK == /\ acctUser \in [Accts -> UserRow]
              /\ acctCred \in [Credentials -> CredentialRow]
              /\ acctLock \in [Accts -> AcctRequests \cup {NoRequest}]
              /\ acctRequest \in [AcctRequests -> AcctRequestState]

\* The service account is seeded; people register.
AcctInit ==
    /\ acctUser = [u \in Accts |-> [there |-> u \in Services, role |-> "member",
                                    enabled |-> TRUE, temporary |-> FALSE, known |-> FALSE]]
    /\ acctCred = [c \in Credentials |-> [kind |-> "session", user |-> NoAccount,
                                          state |-> "unused", late |-> FALSE]]
    /\ acctLock = [u \in Accts |-> NoRequest]
    /\ acctRequest = [r \in AcctRequests |-> AcctIdle]

Admins == {u \in Accts : acctUser[u].there /\ acctUser[u].role = "admin" /\ acctUser[u].enabled}
LiveOf(u) == {c \in Credentials : acctCred[c].user = u /\ acctCred[c].state = "live"}
Unlocked(u) == acctLock[u] = NoRequest

\* A row nobody will look at again stands for a new one.
FreshCredential(c) == /\ acctCred[c].state # "live"
                      /\ \A r \in AcctRequests : acctRequest[r].cred # c

-----------------------------------------------------------------------------
(* Shared steps. *)

Issued(kind, u, late) == [kind |-> kind, user |-> u, state |-> "live", late |-> late]

\* revoke_all of u by the handler of r, which revokes `also` and issues `new` besides.
RevokedAll(u, also, new) ==
    [c \in Credentials |->
        IF c \in DOMAIN new THEN new[c]
        ELSE IF acctCred[c].state = "live" /\ (acctCred[c].user = u \/ c \in also)
        THEN [acctCred[c] EXCEPT !.state = "revoked"] ELSE acctCred[c]]

\* The handler of r is done; when everything of u was revoked, the requests of u are late.
Returns(r, revoked) ==
    acctRequest' = [q \in AcctRequests |->
        IF q = r THEN AcctIdle
        ELSE IF acctRequest[q].user \in revoked THEN [acctRequest[q] EXCEPT !.late = TRUE]
        ELSE acctRequest[q]]
UnlockedBy(r) == acctLock' = [u \in Accts |-> IF acctLock[u] = r THEN NoRequest ELSE acctLock[u]]

\* The row of u is free, or the handler waits for it.
\* Mutant: the row is not locked for update.
NotWaited(u) == acctUser[u].there

Account(u) == acctUser[u].there /\ Unlocked(u)

\* human: the session must not have been revoked since it was authenticated.
Human(r) == LET q == acctRequest[r] IN
            /\ Account(q.user)
            /\ acctUser[q.user].enabled
            /\ acctCred[q.cred].state # "revoked"
            /\ q.user \in Humans

-----------------------------------------------------------------------------
(* Without an identity. *)

Register(u) ==
    /\ ~acctUser[u].there
    /\ acctUser' = [acctUser EXCEPT ![u].there = TRUE, ![u].known = TRUE]
    /\ UNCHANGED <<acctCred, acctLock, acctRequest>>

CreateAdmin(u) ==
    /\ ~acctUser[u].there
    /\ acctUser' = [acctUser EXCEPT ![u].there = TRUE, ![u].known = TRUE, ![u].role = "admin"]
    /\ UNCHANGED <<acctCred, acctLock, acctRequest>>

\* The password is looked at while the row is locked.
BeginLogin(r, u) ==
    /\ acctRequest[r].pc = "idle"
    /\ Account(u)
    /\ acctUser[u].enabled /\ acctUser[u].known
    /\ acctLock' = [acctLock EXCEPT ![u] = r]
    /\ acctRequest' = [acctRequest EXCEPT ![r] = [AcctIdle EXCEPT !.pc = "login", !.user = u]]
    /\ UNCHANGED <<acctUser, acctCred>>

\* The session the browser still had ends.  A temporary password is used up: it is
\* replaced by one that nobody knows, and every older credential is revoked.
FinishLogin(r, c) ==
    LET u == acctRequest[r].user
        new == [k \in {c} |-> Issued("session", u, acctRequest[r].late)] IN
    /\ acctRequest[r].pc = "login"
    /\ FreshCredential(c)
    /\ \E old \in SUBSET {o \in Credentials : acctCred[o].kind = "session"} :
         /\ Cardinality(old) <= 1
         /\ \/ /\ ~acctUser[u].temporary
               /\ acctCred' = RevokedAll(NoAccount, old, new)
               /\ Returns(r, {})
               /\ UNCHANGED acctUser
            \/ /\ acctUser[u].temporary
               /\ acctCred' = RevokedAll(u, old, new)
               /\ acctUser' = [acctUser EXCEPT ![u].known = FALSE]
               /\ Returns(r, {u})
    /\ UnlockedBy(r)

-----------------------------------------------------------------------------
(* authenticate. *)

\* A token opens only the paths of an upload, so that the handlers below are asked with
\* sessions.
Authenticate(r, c) ==
    LET u == acctCred[c].user IN
    /\ acctRequest[r].pc = "idle"
    /\ acctCred[c].kind = "session" /\ acctCred[c].state = "live"
    /\ acctUser[u].enabled
    /\ acctRequest' = [acctRequest EXCEPT ![r] =
          [AcctIdle EXCEPT !.pc = "ready", !.user = u, !.cred = c, !.role = acctUser[u].role,
                           !.restricted = acctUser[u].temporary]]
    /\ UNCHANGED <<acctUser, acctCred, acctLock>>

-----------------------------------------------------------------------------
(* Handlers. *)

Asks(r) == acctRequest[r].pc = "ready"
AsksFreely(r) == Asks(r) /\ ~acctRequest[r].restricted
IsAdmin(r) == acctRequest[r].role = "admin"

\* A handler that refuses, or is not asked after all, changes nothing.
Refused(r) ==
    /\ acctRequest[r].pc # "idle"
    /\ UnlockedBy(r)
    /\ Returns(r, {})
    /\ UNCHANGED <<acctUser, acctCred>>

Logout(r) ==
    /\ Asks(r)
    /\ acctCred' = [acctCred EXCEPT ![acctRequest[r].cred].state = "revoked"]
    /\ Returns(r, {})
    /\ UNCHANGED <<acctUser, acctLock>>

\* The current password need not be given when it is a temporary one.
ChangePassword(r) ==
    LET u == acctRequest[r].user IN
    /\ Asks(r)
    /\ Human(r)
    /\ acctUser[u].temporary \/ acctUser[u].known
    /\ acctUser' = [acctUser EXCEPT ![u].known = TRUE, ![u].temporary = FALSE]
    /\ acctCred' = RevokedAll(u, {}, <<>>)
    /\ Returns(r, {u})
    /\ UNCHANGED acctLock

ResetPassword(r, u) ==
    /\ AsksFreely(r)
    /\ IsAdmin(r)
    /\ Account(u) /\ u \in Humans
    /\ acctUser' = [acctUser EXCEPT ![u].known = TRUE, ![u].temporary = TRUE]
    /\ acctCred' = RevokedAll(u, {}, <<>>)
    /\ Returns(r, {u})
    /\ UNCHANGED acctLock

\* token_target: one's own account, or a service account for an administrator.
OwnTokens(r, u) == Human(r) /\ u = acctRequest[r].user
ServiceTokens(r, u) == IsAdmin(r) /\ Account(u) /\ u \in Services

IssueToken(r, u, c) ==
    /\ AsksFreely(r)
    /\ acctUser[u].enabled
    /\ FreshCredential(c)
    /\ \/ /\ OwnTokens(r, u)
          /\ acctCred' = [acctCred EXCEPT ![c] = Issued("token", u, acctRequest[r].late)]
       \/ /\ ServiceTokens(r, u)
          /\ acctCred' = [acctCred EXCEPT ![c] = Issued("token", u, FALSE)]
    /\ Returns(r, {})
    /\ UNCHANGED <<acctUser, acctLock>>

RevokeToken(r, u, c) ==
    /\ AsksFreely(r)
    /\ OwnTokens(r, u) \/ ServiceTokens(r, u)
    /\ acctCred[c].kind = "token" /\ acctCred[c].user = u
    /\ acctCred' = [acctCred EXCEPT ![c].state = "revoked"]
    /\ Returns(r, {})
    /\ UNCHANGED <<acctUser, acctLock>>

\* The enabled administrators are locked, then the account.
\* Mutant: only the account is locked.
BeginEditOfRow(r, u) ==
    /\ AsksFreely(r)
    /\ IsAdmin(r)
    /\ Account(u)
    /\ acctLock' = [acctLock EXCEPT ![u] = r]
    /\ acctRequest' = [acctRequest EXCEPT ![r].pc = "edit", ![r].target = u, ![r].admins = Admins]
    /\ UNCHANGED <<acctUser, acctCred>>

BeginEdit(r, u) ==
    /\ AsksFreely(r)
    /\ IsAdmin(r)
    /\ Account(u) /\ \A a \in Admins : Unlocked(a)
    /\ acctLock' = [v \in Accts |-> IF v = u \/ v \in Admins THEN r ELSE acctLock[v]]
    /\ acctRequest' = [acctRequest EXCEPT ![r].pc = "edit", ![r].target = u, ![r].admins = Admins]
    /\ UNCHANGED <<acctUser, acctCred>>

\* The last enabled administrator is neither disabled nor demoted, and only people are
\* promoted.
EditAllowed(q, enabled, role) ==
    /\ role = "admin" => q.target \in Humans
    /\ ~(/\ acctUser[q.target].role = "admin" /\ acctUser[q.target].enabled
         /\ Cardinality(q.admins) = 1
         /\ ~enabled \/ role = "member")

\* The edited account is to sign in again, also when nothing was changed.
FinishEdit(r) ==
    LET q == acctRequest[r] IN
    /\ q.pc = "edit"
    /\ \E enabled \in BOOLEAN, role \in {"member", "admin"} :
         /\ EditAllowed(q, enabled, role)
         /\ acctUser' = [acctUser EXCEPT ![q.target].enabled = enabled, ![q.target].role = role]
    /\ acctCred' = RevokedAll(q.target, {}, <<>>)
    /\ Returns(r, {q.target})
    /\ UnlockedBy(r)

AcctHandler(r) ==
    \/ Refused(r) \/ Logout(r) \/ ChangePassword(r) \/ FinishEdit(r)
    \/ \E u \in Accts : \/ ResetPassword(r, u) \/ BeginEdit(r, u)
                        \/ \E c \in Credentials : IssueToken(r, u, c) \/ RevokeToken(r, u, c)

AcctNext ==
    \/ \E u \in Humans : Register(u) \/ CreateAdmin(u)
    \/ \E r \in AcctRequests :
          \/ AcctHandler(r)
          \/ \E u \in Humans : BeginLogin(r, u)
          \/ \E c \in Credentials : FinishLogin(r, c) \/ Authenticate(r, c)

AcctSpec == AcctInit /\ [][AcctNext]_acctVars

-----------------------------------------------------------------------------
(* Properties. *)

\* A credential that still works rests on nothing that was revoked before it was issued,
\* and its account is enabled: no login and no request for a token, however slow, slips a
\* credential past a change of the password or of the account.  While a password is
\* temporary it has opened one session at most, it is of no use any more once it has,
\* and there is no token.
CredentialsAreCurrent ==
    /\ AcctTypeOK
    /\ \A c \in Credentials : acctCred[c].state = "live" =>
          ~acctCred[c].late /\ acctUser[acctCred[c].user].enabled
    /\ \A u \in Humans : acctUser[u].temporary =>
          \A c, d \in LiveOf(u) : c = d /\ acctCred[c].kind = "session" /\ ~acctUser[u].known

\* Concurrent edits do not leave the platform without an enabled administrator.
AdminRemains == [][Admins # {} => Admins' # {}]_acctVars
=============================================================================
