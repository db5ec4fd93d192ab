------------------------------- MODULE Accounts -------------------------------
(***************************************************************************)
(* Users and their tokens (src/src/modules/auth), and the middleware that  *)
(* checks a token (src/src/core/middleware/auth.ts).                       *)
(*                                                                         *)
(* A token is its jti; what it signs cannot be forged.  Redis keeps a      *)
(* revoked jti until the time of its TTL.                                  *)
(***************************************************************************)
EXTENDS RateLimiter

CONSTANTS
  Users, Emails,
  Tokens,
  TokenLife    \* JWT_EXPIRES_IN, in seconds

ASSUME AccountsAssumption == TokenLife \in Nat \ {0} /\ None \notin Nat

VARIABLES
  users,      \* the e-mail of each row, or None
  tokens,     \* what each token signs, or None
  revoked,    \* jwt:revoked:{jti}: when the entry expires, or None
  loggedOut   \* history: tokens whose logout was answered

accountVars == <<users, tokens, revoked, loggedOut>>

Token == [user: Users, exp: Nat]

(* Time in whole seconds, as the tokens have it. *)
Seconds(t) == t \div 2

-----------------------------------------------------------------------------
(* The routes: authentication, and the role each asks for. *)

Public == {"register", "login"}

MinRole(op) ==
  CASE op \in {"getProject", "listMembers", "listDefinitions"} -> "VIEWER"
    [] op \in {"updateProject", "createDefinition", "updateDefinition", "deleteDefinition"}
         -> "PROJECT_LEAD"
    [] op \in {"deleteProject", "addMember", "removeMember"} -> "ADMIN"
    [] OTHER -> None

-----------------------------------------------------------------------------
(* jwt.verify; what needs no token goes by.  Where several routers are mounted over a *)
(* path, each authenticates the call again: once here, as later checks only refuse.    *)
Verify(q) ==
  LET t == call[q].request.token IN
    /\ call[q].step = "verify"
    /\ IF call[q].request.op \in Public THEN Goto(q, "handler")
       ELSE IF t = None \/ tokens[t] = None \/ Seconds(clock) >= tokens[t].exp
              THEN Answer(q, 401)
       ELSE Become(q, [call[q] EXCEPT !.step = "revoked", !.user = tokens[t].user], {}, {})
    /\ UNCHANGED <<clock, hits, recorded, admitted, expiry, accountVars>>

IsRevoked(t) == revoked[t] # None /\ clock < revoked[t]

CheckRevoked(q) ==
  /\ call[q].step = "revoked"
  /\ IF IsRevoked(call[q].request.token) THEN Answer(q, 401)
     ELSE Goto(q, IF MinRole(call[q].request.op) = None THEN "handler" ELSE "cached")
  /\ UNCHANGED <<clock, hits, recorded, admitted, expiry, accountVars>>

-----------------------------------------------------------------------------
(* register *)

HasEmail(e) == {u \in Users : users[u] = e}

(* Mutant of FindEmail: nobody looks whether there is such a user. *)
FindEmail_NoCheck(q) ==
  LET e == call[q].request.email IN
    /\ At(q, "register", "handler")
    /\ GotoReading(q, "save", {<<"email", e>>})
    /\ UNCHANGED <<clock, hits, recorded, admitted, expiry, accountVars>>

FindEmail(q) ==
  LET e == call[q].request.email IN
    /\ At(q, "register", "handler")
    /\ IF HasEmail(e) # {} THEN Answer(q, 409) ELSE GotoReading(q, "save", {<<"email", e>>})
    /\ UNCHANGED <<clock, hits, recorded, admitted, expiry, accountVars>>

(* The unique index on e-mails. *)
Taken(e) == HasEmail(e) # {}

(* The hash is made, and the row inserted. *)
SaveUser(q) ==
  LET e == call[q].request.email IN
    /\ At(q, "register", "save")
    /\ \/ /\ Taken(e)
          /\ Answer(q, 500)
          /\ UNCHANGED users
       \/ /\ ~Taken(e) /\ HasEmail(None) # {}
          /\ LET u == CHOOSE x \in HasEmail(None) : TRUE IN
               /\ users' = [users EXCEPT ![u] = e]
               /\ AnswerWriting(q, 201, {<<"email", e>>, <<"user", u>>})
    /\ UNCHANGED <<clock, hits, recorded, admitted, expiry, tokens, revoked, loggedOut>>

-----------------------------------------------------------------------------
(* login and logout *)

(* findByEmail and the comparison of the passwords. *)
CheckPassword(q) ==
  LET found == HasEmail(call[q].request.email) IN
    /\ At(q, "login", "handler")
    /\ \/ Answer(q, 401)
       \/ found # {} /\ Keep(q, "sign", CHOOSE u \in found : TRUE)
    /\ UNCHANGED <<clock, hits, recorded, admitted, expiry, accountVars>>

Unsigned == {t \in Tokens : tokens[t] = None}

(* Mutant of SignToken: the subject is the e-mail. *)
SignToken_Email(q) ==
  /\ At(q, "login", "sign") /\ Unsigned # {}
  /\ tokens' = [tokens EXCEPT ![CHOOSE t \in Unsigned : TRUE] =
       [user |-> call[q].request.email, exp |-> Seconds(clock) + TokenLife]]
  /\ Answer(q, 200)
  /\ UNCHANGED <<clock, hits, recorded, admitted, expiry, users, revoked, loggedOut>>

SignToken(q) ==
  /\ At(q, "login", "sign") /\ Unsigned # {}
  /\ tokens' = [tokens EXCEPT ![CHOOSE t \in Unsigned : TRUE] =
       [user |-> call[q].found, exp |-> Seconds(clock) + TokenLife]]
  /\ Answer(q, 200)
  /\ UNCHANGED <<clock, hits, recorded, admitted, expiry, users, revoked, loggedOut>>

(* Mutant of Lifetime: the second that has begun does not count. *)
Lifetime_RoundedDown(t) == Max({tokens[t].exp - Seconds(clock + 1), 1})

Lifetime(t) == Max({tokens[t].exp - Seconds(clock), 1})

(* The token is refused until it expires by itself. *)
Logout(q) ==
  LET t == call[q].request.token IN
    /\ At(q, "logout", "handler")
    /\ revoked' = [revoked EXCEPT ![t] = clock + 2 * Lifetime(t)]
    /\ loggedOut' = loggedOut \cup {t}
    /\ Answer(q, 204)
    /\ UNCHANGED <<clock, hits, recorded, admitted, expiry, users, tokens>>

Account(q) ==
  \/ Verify(q) \/ CheckRevoked(q) \/ FindEmail(q) \/ SaveUser(q)
  \/ CheckPassword(q) \/ SignToken(q) \/ Logout(q)

-----------------------------------------------------------------------------
(* No call that came after the logout of its token was answered gets past the middleware *)
(* while the token has time left: the entry in Redis outlives the token, whose time is    *)
(* cut to seconds.  The token's time may run out between the two checks, which lets the   *)
(* call through.                                                                         *)
LoggedOutRefused ==
  [][\A q \in Calls :
       call[q].late /\ call[q].step = "revoked" /\ call'[q].step \in {"handler", "cached"}
         => Seconds(clock) >= tokens[call[q].request.token].exp]_<<clock, call>>
=============================================================================
