------------------------------- MODULE Identity -------------------------------
(***************************************************************************)
(* Accounts, their profiles, and the tokens that lead into them: the links  *)
(* of verification and reset e-mails and the refresh tokens, all of them    *)
(* keys in Redis with a time to live.  Requests overlap: each reads, then   *)
(* commits, then touches Redis or SMTP, and may die in between.             *)
(*                                                                         *)
(* Access tokens carry their own validity and are not state here.           *)
(***************************************************************************)
EXTENDS Integers, FiniteSets

CONSTANTS
  Emails,    \* addresses of accounts
  Reqs,      \* requests under way
  Fields,    \* fields of a customer profile
  Empty,     \* what a request that has no such thing holds
  MaxToks    \* bound: tokens issued

ASSUME IdentityAssumption == MaxToks \in Nat /\ Empty \notin Reqs \cup Emails \cup Fields

VARIABLES
  rows,      \* rows of users with each address
  active, verified, usable, \* is_active; email_verified_at; the password is known to its owner
  recent,    \* addresses within the cooldown after a verification e-mail
  profile,   \* the customer_profiles row of each account: none, or its filled fields
  toks,      \* the tokens issued, in order
  req,       \* what each request is doing
  uses,      \* how often each token has done its work
  loose,     \* links that were held by two requests at once or whose deletion was lost
  acked      \* the fields of each account whose filling was answered with success

accounts == <<rows, active, verified, usable, recent>>
vars == <<accounts, profile, toks, req, uses, loose, acked>>

Toks == 1..MaxToks
NoProfile == {Empty}

Idle == [op |-> "idle", of |-> Empty, tok |-> 0, field |-> Empty, seen |-> FALSE]
Doing(op, e) == [Idle EXCEPT !.op = op, !.of = e]
Ops == {"idle", "register", "create", "verifylink", "setuplink", "resetlink",
        "use", "burn", "refresh", "edit"}

Init ==
  /\ rows = [e \in Emails |-> 0]
  /\ active = {} /\ verified = {} /\ usable = {} /\ recent = {}
  /\ profile = [e \in Emails |-> NoProfile]
  /\ toks = [t \in Toks |-> [kind |-> "none", of |-> Empty, live |-> FALSE]]
  /\ req = [r \in Reqs |-> Idle]
  /\ uses = [t \in Toks |-> 0] /\ loose = {}
  /\ acked = [e \in Emails |-> {}]

Exists(e) == rows[e] > 0
Free == {t \in Toks : toks[t].kind = "none"}
Fresh == CHOOSE t \in Free : \A s \in Free : t <= s
Token(kind, e) == [kind |-> kind, of |-> e, live |-> TRUE]
Becomes(r, doing) == req' = [req EXCEPT ![r] = doing]

-----------------------------------------------------------------------------
(* Creation of accounts.                                                     *)

\* A customer registers, or staff create an account for a carrier, and find
\* nobody under the address.
CreateRead(r, e) ==
  /\ req[r] = Idle /\ ~Exists(e)
  /\ \E op \in {"register", "create"} : Becomes(r, Doing(op, e))
  /\ UNCHANGED <<accounts, profile, toks, uses, loose, acked>>

Creating(r) == req[r].op \in {"register", "create"}

\* The account with its profile, a carrier's without one and with a password
\* nobody is told; the unique address answers a second request with an error.
CreateCommit(r) ==
  LET e == req[r].of customer == req[r].op = "register" IN
  /\ Creating(r)
  /\ IF Exists(e)
     THEN Becomes(r, Idle) /\ UNCHANGED <<accounts, profile>>
     ELSE /\ rows' = [rows EXCEPT ![e] = 1]
          /\ active' = active \cup {e}
          /\ Becomes(r, Doing(IF customer THEN "verifylink" ELSE "setuplink", e))
          /\ IF customer
             THEN usable' = usable \cup {e} /\ profile' = [profile EXCEPT ![e] = {}]
             ELSE UNCHANGED <<usable, profile>>
          /\ UNCHANGED <<verified, recent>>
  /\ UNCHANGED <<toks, uses, loose, acked>>

-----------------------------------------------------------------------------
(* Links in e-mails.                                                         *)

ResendRead(r, e) ==
  /\ req[r] = Idle /\ Exists(e) /\ e \notin verified /\ e \notin recent
  /\ Becomes(r, Doing("verifylink", e))
  /\ UNCHANGED <<accounts, profile, toks, uses, loose, acked>>

ForgotRead(r, e) ==
  /\ req[r] = Idle /\ Exists(e)
  /\ Becomes(r, Doing("resetlink", e))
  /\ UNCHANGED <<accounts, profile, toks, uses, loose, acked>>

Linking(r) == req[r].op \in {"verifylink", "setuplink", "resetlink"}

\* The link is stored and mailed; the cooldown starts with the mail.
Link(r) ==
  LET e == req[r].of kind == IF req[r].op = "verifylink" THEN "verify" ELSE "reset" IN
  /\ Linking(r) /\ Free # {}
  /\ toks' = [toks EXCEPT ![Fresh] = Token(kind, e)]
  /\ recent' = IF kind = "verify" THEN recent \cup {e} ELSE recent
  /\ Becomes(r, Idle)
  /\ UNCHANGED <<rows, active, verified, usable, profile, uses, loose, acked>>

\* SMTP refuses: nobody holds the link, whose key expires unused.
LinkFails(r) ==
  /\ Linking(r)
  /\ Becomes(r, Idle)
  /\ UNCHANGED <<accounts, profile, toks, uses, loose, acked>>

Cool(e) ==
  /\ e \in recent
  /\ recent' = recent \ {e}
  /\ UNCHANGED <<rows, active, verified, usable, profile, toks, req, uses, loose, acked>>

\* Counts never, once, and more than once.
Used(t) == uses' = [uses EXCEPT ![t] = IF @ = 0 THEN 1 ELSE 2]

Holds(r, t) == req[r].tok = t

\* verify_email and reset_password find the user under the key.
UseRead(r, t) ==
  /\ req[r] = Idle /\ toks[t].live /\ toks[t].kind \in {"verify", "reset"}
  /\ Becomes(r, [Doing("use", toks[t].of) EXCEPT !.tok = t])
  /\ loose' = IF \E s \in Reqs : Holds(s, t) THEN loose \cup {t} ELSE loose
  /\ UNCHANGED <<accounts, profile, toks, uses, acked>>

UseCommit(r) ==
  LET e == req[r].of t == req[r].tok IN
  /\ req[r].op = "use"
  /\ IF toks[t].kind = "verify"
     THEN verified' = verified \cup {e} /\ UNCHANGED usable
     ELSE usable' = usable \cup {e} /\ UNCHANGED verified
  /\ Used(t)
  /\ req' = [req EXCEPT ![r].op = "burn"]
  /\ UNCHANGED <<rows, active, recent, profile, toks, loose, acked>>

\* Mutant of Burn: the key is left to expire.
Burn_Not(r) ==
  /\ req[r].op = "burn"
  /\ Becomes(r, Idle)
  /\ UNCHANGED <<accounts, profile, toks, uses, loose, acked>>

Burn(r) ==
  /\ req[r].op = "burn"
  /\ toks' = [toks EXCEPT ![req[r].tok].live = FALSE]
  /\ Becomes(r, Idle)
  /\ UNCHANGED <<accounts, profile, uses, loose, acked>>

-----------------------------------------------------------------------------
(* Sessions.                                                                 *)

Login(r, e) ==
  /\ req[r] = Idle /\ e \in usable /\ e \in active /\ Free # {}
  /\ toks' = [toks EXCEPT ![Fresh] = Token("refresh", e)]
  /\ UNCHANGED <<accounts, profile, req, uses, loose, acked>>

\* consume_refresh_token: one script in Redis reads and deletes.
Consume(r, t) ==
  /\ req[r] = Idle /\ toks[t].live /\ toks[t].kind = "refresh"
  /\ toks' = [toks EXCEPT ![t].live = FALSE]
  /\ Becomes(r, Doing("refresh", toks[t].of))
  /\ Used(t)
  /\ UNCHANGED <<accounts, profile, loose, acked>>

\* The successor, unless the account has been disabled: then the session is over.
Renew(r) ==
  /\ req[r].op = "refresh"
  /\ IF req[r].of \in active
     THEN Free # {} /\ toks' = [toks EXCEPT ![Fresh] = Token("refresh", req[r].of)]
     ELSE UNCHANGED toks
  /\ Becomes(r, Idle)
  /\ UNCHANGED <<accounts, profile, uses, loose, acked>>

\* logout deletes a refresh token; any key expires.
Vanish(t) ==
  /\ toks[t].live
  /\ toks' = [toks EXCEPT ![t].live = FALSE]
  /\ UNCHANGED <<accounts, profile, req, uses, loose, acked>>

\* update_user of admin_customers.
SetActive(e) ==
  /\ Exists(e)
  /\ active' = IF e \in active THEN active \ {e} ELSE active \cup {e}
  /\ UNCHANGED <<rows, verified, usable, recent, profile, toks, req, uses, loose, acked>>

-----------------------------------------------------------------------------
(* The profile: created with a customer, for others by their first edit.     *)

EditRead(r, e, f) ==
  /\ req[r] = Idle /\ Exists(e)
  /\ Becomes(r, [Doing("edit", e) EXCEPT !.field = f, !.seen = profile[e] # NoProfile])
  /\ UNCHANGED <<accounts, profile, toks, uses, loose, acked>>

\* Mutant of EditCommit: the loser of two first edits is answered without its edit.
EditCommit_LosesRace(r) ==
  LET e == req[r].of f == req[r].field IN
  /\ req[r].op = "edit"
  /\ profile' = [profile EXCEPT ![e] =
       IF @ = NoProfile THEN {f} ELSE IF req[r].seen THEN @ \cup {f} ELSE @]
  /\ acked' = [acked EXCEPT ![e] = @ \cup {f}]
  /\ Becomes(r, Idle)
  /\ UNCHANGED <<accounts, toks, uses, loose>>

\* A request that saw no profile inserts one; the unique user_id refuses the
\* second insert, which reads the first one's row and goes on.  Only the fields
\* the client sent are written.
EditCommit(r) ==
  LET e == req[r].of f == req[r].field IN
  /\ req[r].op = "edit"
  /\ profile' = [profile EXCEPT ![e] = IF @ = NoProfile THEN {f} ELSE @ \cup {f}]
  /\ acked' = [acked EXCEPT ![e] = @ \cup {f}]
  /\ Becomes(r, Idle)
  /\ UNCHANGED <<accounts, toks, uses, loose>>

\* The process dies under a request.
Die(r) ==
  /\ req[r] # Idle
  /\ Becomes(r, Idle)
  /\ loose' = IF req[r].op = "burn" THEN loose \cup {req[r].tok} ELSE loose
  /\ UNCHANGED <<accounts, profile, toks, uses, acked>>

-----------------------------------------------------------------------------
Request(r) ==
  \/ CreateCommit(r) \/ Link(r) \/ LinkFails(r) \/ UseCommit(r) \/ Burn(r)
  \/ Renew(r) \/ EditCommit(r) \/ Die(r)
  \/ \E e \in Emails : CreateRead(r, e) \/ ResendRead(r, e) \/ ForgotRead(r, e) \/ Login(r, e)
  \/ \E t \in Toks : UseRead(r, t) \/ Consume(r, t)
  \/ \E e \in Emails, f \in Fields : EditRead(r, e, f)

Next ==
  \/ \E r \in Reqs : Request(r)
  \/ \E e \in Emails : Cool(e) \/ SetActive(e)
  \/ \E t \in Toks : Vanish(t)

Spec == Init /\ [][Next]_vars

-----------------------------------------------------------------------------
\* Every variable has its type; an address has at most one account.
TypeOK ==
  /\ rows \in [Emails -> 0..1]
  /\ {active, verified, usable, recent} \subseteq SUBSET {e \in Emails : Exists(e)}
  /\ profile \in [Emails -> {NoProfile} \cup SUBSET Fields]
  /\ toks \in [Toks -> [kind: {"none", "verify", "reset", "refresh"}, of: Emails \cup {Empty}, live: BOOLEAN]]
  /\ req \in [Reqs -> [op: Ops, of: Emails \cup {Empty}, tok: 0..MaxToks,
                    field: Fields \cup {Empty}, seen: BOOLEAN]]
  /\ uses \in [Toks -> 0..2] /\ loose \subseteq Toks
  /\ acked \in [Emails -> SUBSET Fields]

\* A refresh token is renewed once, whoever presents it and whatever fails; a
\* link does its work once, unless two requests held it at the same time or a
\* death came between its work and its deletion.
TokensAreUsedOnce ==
  \A t \in Toks : uses[t] > 1 => toks[t].kind # "refresh" /\ t \in loose

\* A profile holds every edit that was answered with success: neither two first
\* edits at once nor edits of different fields undo one another.
AckedEditsKept ==
  \A e \in Emails : acked[e] \subseteq profile[e]

=============================================================================
