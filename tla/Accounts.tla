------------------------------ MODULE Accounts ------------------------------
(***************************************************************************)
(* One account (views.py, the part before the agents): signing up, mailed  *)
(* links, passwords and sessions.  The row of a user is read, changed and  *)
(* saved as a whole; sessions are the refresh tokens of simplejwt.         *)
(*                                                                         *)
(* A password hash is named after the request that set it (set_password    *)
(* salts, so it never repeats), and a session after the request that       *)
(* issued it.  A mailed link holds for as long as the hash it was made     *)
(* from, and at most PASSWORD_RESET_TIMEOUT.                               *)
(***************************************************************************)
EXTENDS FiniteSets

CONSTANTS
    AccRequest, \* requests about the account, each used once
    First,      \* the password and the session there were before
    NoUser

VARIABLES
    user,    \* the row: [hash, verified, name], or NoUser
    mailed,  \* the hashes from which links have been made and mailed
    issued,  \* refresh tokens: OutstandingToken
    sessions,    \* those that are not blacklisted
    under,   \* under[s]: the password with which session s was opened
    apc,     \* apc[q]: the next step of request q
    aloc,    \* aloc[q]: the row as q will save it, and the session it uses
    fresh,   \* passwords in force since the last reset
    flying   \* requests that were about to issue a session during some reset

accVars == <<user, mailed, issued, sessions, under, apc, aloc, fresh, flying>>

Hash == AccRequest \cup {First}
UserRow == [hash : Hash, verified : BOOLEAN, name : {"given", "renamed"}]
ASSUME AccAssumption == First \notin AccRequest /\ NoUser \notin UserRow
NoALocal == [copy |-> NoUser, session |-> First]
AGoto(q, label) == apc' = [apc EXCEPT ![q] = label]
Hold(q, copy) == aloc' = [aloc EXCEPT ![q].copy = copy]
Issuing == {q \in AccRequest : apc[q] \in {"token", "rotate"}}
SignedUp == user # NoUser
Authenticated == issued # {} \* an access token outlives its session

-----------------------------------------------------------------------------
\* signup: validate_email, then an insert that a second signup has made fail;
\* the mail is best effort, and so are the sample connections.
SignupCheck(q) ==
    /\ apc[q] = "idle"
    /\ AGoto(q, IF SignedUp THEN "refused" ELSE "insert")
    /\ UNCHANGED <<user, mailed, issued, sessions, under, aloc, fresh, flying>>

SignupInsert(q) ==
    /\ apc[q] = "insert"
    /\ IF SignedUp
         THEN AGoto(q, "refused") /\ UNCHANGED <<user, mailed, fresh>>
         ELSE /\ user' = [hash |-> q, verified |-> FALSE, name |-> "given"]
              /\ mailed' \in {mailed, mailed \cup {q}}
              /\ fresh' = {q}
              /\ AGoto(q, "done")
    /\ UNCHANGED <<issued, sessions, under, aloc, flying>>

\* _build_token_link: the token is a hash over the password hash, among others.
Link(u) == u.hash
\* check_token, for as long as the link is not too old.
Accepts(u, link) == link = Link(u)

\* A mail is sent or it fails, and the answer is the same.
SendLink(q) ==
    /\ mailed' \in {mailed, mailed \cup {Link(user)}}
    /\ AGoto(q, "done")
    /\ UNCHANGED <<user, issued, sessions, under, aloc, fresh, flying>>

\* resend_verification is for unverified accounts, password_reset for any.
Resend(q) == apc[q] = "idle" /\ SignedUp /\ ~user.verified /\ SendLink(q)
PasswordReset(q) == apc[q] = "idle" /\ SignedUp /\ SendLink(q)

\* password_reset_validate: the form asks before it is shown; nothing is used up.
PasswordResetValidate(q) ==
    /\ apc[q] = "idle" /\ SignedUp
    /\ \E link \in mailed : AGoto(q, IF Accepts(user, link) THEN "done" ELSE "refused")
    /\ UNCHANGED <<user, mailed, issued, sessions, under, aloc, fresh, flying>>

\* email_verify and password_reset_confirm: get the user, check the token, ...
OpenLink(q, label, change) ==
    /\ apc[q] = "idle" /\ SignedUp
    /\ \E link \in mailed :
        \/ Accepts(user, link) /\ Hold(q, change) /\ AGoto(q, label)
        \/ AGoto(q, "refused") /\ UNCHANGED aloc
    /\ UNCHANGED <<user, mailed, issued, sessions, under, fresh, flying>>

\* Clicking a link twice succeeds twice: the second time nothing is saved.
VerifyGet(q) ==
    SignedUp /\ OpenLink(q, IF user.verified THEN "done" ELSE "save", [user EXCEPT !.verified = TRUE])
ConfirmGet(q) ==
    SignedUp /\ OpenLink(q, "confirm", [user EXCEPT !.hash = q])

(* Mutant: the refresh tokens are left alone. *)
ConfirmSaveOnly(q) ==
    /\ apc[q] = "confirm"
    /\ user' = aloc[q].copy
    /\ fresh' = {q}
    /\ flying' = flying \cup Issuing
    /\ AGoto(q, "done")
    /\ UNCHANGED <<mailed, issued, sessions, under, aloc>>

\* ... and in one transaction save the row and blacklist every session.
ConfirmSave(q) ==
    /\ apc[q] = "confirm"
    /\ user' = aloc[q].copy
    /\ sessions' = {}
    /\ fresh' = {q}
    /\ flying' = flying \cup Issuing
    /\ AGoto(q, "done")
    /\ UNCHANGED <<mailed, issued, under, aloc>>

\* update_user_profile and password_change: request.user is the row as it was
\* when the request was authenticated; a change needs the old password.
ProfileRead(q) ==
    /\ apc[q] = "idle" /\ Authenticated
    /\ \/ Hold(q, [user EXCEPT !.name = "renamed"]) /\ AGoto(q, "save")
       \/ Hold(q, [user EXCEPT !.hash = q]) /\ AGoto(q, "save")
       \/ AGoto(q, "refused") /\ UNCHANGED aloc
    /\ UNCHANGED <<user, mailed, issued, sessions, under, fresh, flying>>

\* user.save() of a verification, a profile or a password; sessions stay.
SaveUser(q) ==
    /\ apc[q] = "save"
    /\ user' = aloc[q].copy
    /\ fresh' = fresh \cup {aloc[q].copy.hash}
    /\ AGoto(q, "done")
    /\ UNCHANGED <<mailed, issued, sessions, under, aloc, flying>>

-----------------------------------------------------------------------------
\* EmailTokenObtainPairSerializer: password, then verification, then a token.
LoginCheck(q) ==
    /\ apc[q] = "idle"
    /\ \/ SignedUp /\ user.verified /\ Hold(q, user) /\ AGoto(q, "token")
       \/ AGoto(q, "refused") /\ UNCHANGED aloc
    /\ UNCHANGED <<user, mailed, issued, sessions, under, fresh, flying>>

LoginToken(q) ==
    /\ apc[q] = "token"
    /\ issued' = issued \cup {q} /\ sessions' = sessions \cup {q}
    /\ under' = [under EXCEPT ![q] = aloc[q].copy.hash]
    /\ AGoto(q, "done")
    /\ UNCHANGED <<user, mailed, aloc, fresh, flying>>

\* TokenRefreshView: a token that is not blacklisted is, and another issued.
RefreshCheck(q) ==
    /\ apc[q] = "idle"
    /\ \E s \in issued :
        /\ aloc' = [aloc EXCEPT ![q].session = s]
        /\ AGoto(q, IF s \in sessions THEN "rotate" ELSE "refused")
    /\ UNCHANGED <<user, mailed, issued, sessions, under, fresh, flying>>

RefreshRotate(q) ==
    LET s == aloc[q].session IN
    /\ apc[q] = "rotate"
    /\ issued' = issued \cup {q} /\ sessions' = (sessions \ {s}) \cup {q}
    /\ under' = [under EXCEPT ![q] = under[s]]
    /\ AGoto(q, "done")
    /\ UNCHANGED <<user, mailed, aloc, fresh, flying>>

Logout(q) ==
    /\ apc[q] = "idle" /\ Authenticated
    /\ \E s \in issued :
        /\ AGoto(q, IF s \in sessions THEN "done" ELSE "refused")
        /\ sessions' = sessions \ {s}
    /\ UNCHANGED <<user, mailed, issued, under, aloc, fresh, flying>>

-----------------------------------------------------------------------------
\* Nobody yet, or somebody, verified or not, perhaps logged in.
AccInit ==
    /\ \/ user = NoUser /\ mailed = {} /\ issued = {}
       \/ /\ \E verified \in BOOLEAN :
                user = [hash |-> First, verified |-> verified, name |-> "given"]
          /\ mailed = {First}
          /\ issued = IF user.verified THEN {First} ELSE {}
    /\ sessions = issued
    /\ under = [s \in Hash |-> First]
    /\ apc = [q \in AccRequest |-> "idle"]
    /\ aloc = [q \in AccRequest |-> NoALocal]
    /\ fresh = {First} /\ flying = {}

AccOver == \A q \in AccRequest : apc[q] \in {"done", "refused"}

AccNext ==
    \/ \E q \in AccRequest :
        \/ SignupCheck(q) \/ SignupInsert(q)
        \/ Resend(q) \/ PasswordReset(q) \/ PasswordResetValidate(q)
        \/ VerifyGet(q) \/ ConfirmGet(q) \/ ConfirmSave(q)
        \/ ProfileRead(q) \/ SaveUser(q)
        \/ LoginCheck(q) \/ LoginToken(q) \/ RefreshCheck(q) \/ RefreshRotate(q) \/ Logout(q)
    \/ AccOver /\ UNCHANGED accVars

AccSpec == AccInit /\ [][AccNext]_accVars

-----------------------------------------------------------------------------
AccTypeOK ==
    /\ user \in UserRow \cup {NoUser}
    /\ mailed \subseteq Hash /\ issued \subseteq Hash /\ sessions \subseteq issued
    /\ under \in [Hash -> Hash]
    /\ apc \in [AccRequest -> {"idle", "insert", "save", "confirm", "token", "rotate", "done", "refused"}]
    /\ aloc \in [AccRequest -> [copy : UserRow \cup {NoUser}, session : Hash]]
    /\ fresh \subseteq Hash /\ flying \subseteq AccRequest

\* "The password change and the invalidation of existing refresh tokens must
\* succeed together" (password_reset_confirm), seen over many steps: a session
\* that is alive was opened, and however often renewed, with a password in force
\* since the last reset; or descends from a login or renewal that had passed its
\* check when a reset was committed.
ResetEndsSessions ==
    \A s \in sessions : under[s] \in fresh \/ \E p \in flying \cap issued : under[s] = under[p]
-----------------------------------------------------------------------------
\* The inductive invariant behind it.

\* A session, or one about to be issued, that stems from password h is covered
\* when h is in force, or when somebody who had passed the check of a login or
\* a renewal at the time of a reset has issued a session from h.
Covered(h) == h \in fresh \/ \E p \in flying \cap issued : h = under[p]

\* Who is about to do something has done nothing yet.
Unissued == \A q \in AccRequest : apc[q] \in {"idle", "token", "rotate"} => q \notin issued

\* What a request will save or issue when it goes on.
Pending ==
    \A q \in AccRequest :
        /\ apc[q] \in {"save", "confirm", "token"} => aloc[q].copy \in UserRow
        /\ apc[q] = "confirm" => aloc[q].copy.hash = q
        /\ apc[q] = "token" => q \in flying \/ Covered(aloc[q].copy.hash)
        /\ apc[q] = "rotate" => aloc[q].session \in issued
                                /\ (q \in flying \/ Covered(under[aloc[q].session]))

\* Before anybody has signed up there is no session and nobody can make one.
Nobody == user = NoUser =>
    issued = {} /\ \A q \in AccRequest : apc[q] \notin {"save", "confirm", "token", "rotate"}

InForce == user # NoUser => user.hash \in fresh

AccIInv ==
    /\ AccTypeOK /\ Unissued /\ Pending /\ Nobody /\ InForce
    /\ \A s \in sessions : Covered(under[s])
=============================================================================
