---------------------------- MODULE IdentityProofs ----------------------------
(***************************************************************************)
(* Tokens and profiles, for every number of accounts, requests and tokens.  *)
(***************************************************************************)
EXTENDS Identity, WellFoundedInduction, TLAPS

USE IdentityAssumption DEF IdentityAssumption

ReqRec == [op: Ops, of: Emails \cup {Empty}, tok: 0..MaxToks,
           field: Fields \cup {Empty}, seen: BOOLEAN]
TokRec == [kind: {"none", "verify", "reset", "refresh"}, of: Emails \cup {Empty}, live: BOOLEAN]

Links == {"verify", "reset"}

\* What a request holds belongs to an account that exists, unless it is about
\* to make one; only the users of a link hold a token.
RequestOK(r) ==
  LET q == req[r] IN
  /\ q.op = "idle" => q = Idle
  /\ q.op # "idle" => q.of \in Emails
  /\ q.op \notin {"idle", "register", "create"} => rows[q.of] = 1
  /\ q.op = "edit" => q.field \in Fields
  /\ q.op \in {"use", "burn"} => q.tok \in Toks /\ toks[q.tok].kind \in Links
  /\ q.op \notin {"use", "burn"} => q.tok = 0

RequestsOK == \A r \in Reqs : RequestOK(r)

TokenOK(t) ==
  /\ toks[t].kind # "none" => toks[t].of \in Emails /\ rows[toks[t].of] = 1
  /\ toks[t].kind = "none" => ~toks[t].live /\ uses[t] = 0
  /\ toks[t].kind = "refresh" => uses[t] = 0 \/ (uses[t] = 1 /\ ~toks[t].live)

TokensOK == \A t \in Toks : TokenOK(t)

\* A link that is not loose: one request at most holds it, its work is done at
\* most once, and once it is done the link is dead or about to be burnt.
LinkOK(t) ==
  /\ uses[t] = 0 \/ uses[t] = 1
  /\ \A r, s \in Reqs : Holds(r, t) /\ Holds(s, t) => r = s
  /\ \A r \in Reqs : Holds(r, t) /\ req[r].op = "use" => uses[t] = 0
  /\ uses[t] = 1 /\ toks[t].live => \E r \in Reqs : Holds(r, t) /\ req[r].op = "burn"

LinksOK == \A t \in Toks : toks[t].kind \in Links /\ t \notin loose => LinkOK(t)

\* Nobody has a profile without an account.
ProfilesOK ==
  \A e \in Emails : acked[e] \subseteq profile[e] /\ (rows[e] = 0 => profile[e] = NoProfile)

IdentityInv == TypeOK /\ RequestsOK /\ TokensOK /\ LinksOK /\ ProfilesOK

-----------------------------------------------------------------------------
(* What a step leaves alone.                                                 *)

\* What holds of the requests' types and of the tokens' types.
LEMMA Types ==
  ASSUME TypeOK
  PROVE  /\ req \in [Reqs -> ReqRec] /\ toks \in [Toks -> TokRec]
         /\ rows \in [Emails -> 0..1] /\ uses \in [Toks -> 0..2]
         /\ profile \in [Emails -> {NoProfile} \cup SUBSET Fields]
         /\ acked \in [Emails -> SUBSET Fields] /\ loose \subseteq Toks
  BY DEF TypeOK, ReqRec, TokRec

\* The idle request, and one that holds no token.
LEMMA IdleFields ==
  /\ Idle \in ReqRec /\ Idle.op = "idle" /\ Idle.tok = 0 /\ Idle.of = Empty
  BY DEF Idle, ReqRec, Ops

LEMMA DoingFields ==
  ASSUME NEW op \in Ops, NEW e \in Emails \cup {Empty}
  PROVE  /\ Doing(op, e) \in ReqRec
         /\ Doing(op, e).op = op /\ Doing(op, e).of = e /\ Doing(op, e).tok = 0
  BY IdleFields DEF Doing, ReqRec

LEMMA BecomesOne ==
  ASSUME TypeOK, NEW r \in Reqs, NEW y \in ReqRec, Becomes(r, y)
  PROVE  /\ req' \in [Reqs -> ReqRec] /\ req'[r] = y
         /\ \A s \in Reqs : s # r => req'[s] = req[s]
  BY Types DEF Becomes

\* Accounts are never deleted and a link remains a link: the requests a step
\* does not move stay what they were.
LEMMA Unmoved ==
  ASSUME TypeOK, RequestsOK,
         \A e \in Emails : rows[e] = 1 => rows'[e] = 1,
         \A t \in Toks : toks[t].kind \in Links => toks'[t].kind \in Links
  PROVE  \A s \in Reqs : req'[s] = req[s] => RequestOK(s)'
<1> SUFFICES ASSUME NEW s \in Reqs, req'[s] = req[s] PROVE RequestOK(s)'
  OBVIOUS
<1>1. RequestOK(s)
  BY DEF RequestsOK
<1>2. QED BY <1>1 DEF RequestOK

\* Tokens are untouched where they, their use and their accounts are.
LEMMA TokensStay ==
  ASSUME TokensOK, \A e \in Emails : rows[e] = 1 => rows'[e] = 1
  PROVE  \A t \in Toks : toks'[t] = toks[t] /\ uses'[t] = uses[t] => TokenOK(t)'
  BY DEF TokensOK, TokenOK

\* A link is as it was when no request takes it up or lets go of it.
LEMMA LinkStays ==
  ASSUME TypeOK, LinksOK, NEW t \in Toks,
         toks'[t].kind = toks[t].kind, toks'[t].live => toks[t].live, uses'[t] = uses[t],
         t \notin loose' => t \notin loose,
         \A r \in Reqs : Holds(r, t)' <=> Holds(r, t),
         \A r \in Reqs : Holds(r, t) => req'[r].op = req[r].op
  PROVE  toks'[t].kind \in Links /\ t \notin loose' => LinkOK(t)'
<1> SUFFICES ASSUME toks'[t].kind \in Links, t \notin loose' PROVE LinkOK(t)'
  OBVIOUS
<1>1. LinkOK(t)
  BY DEF LinksOK
<1>2. (uses[t] = 0 \/ uses[t] = 1)'
  BY <1>1 DEF LinkOK
<1>3. \A r, s \in Reqs : Holds(r, t)' /\ Holds(s, t)' => r = s
  BY <1>1 DEF LinkOK
<1>4. \A r \in Reqs : Holds(r, t)' /\ req'[r].op = "use" => uses'[t] = 0
  BY <1>1 DEF LinkOK
<1>5. uses'[t] = 1 /\ toks'[t].live => \E r \in Reqs : Holds(r, t)' /\ req'[r].op = "burn"
  <2> SUFFICES ASSUME uses'[t] = 1, toks'[t].live
               PROVE  \E r \in Reqs : Holds(r, t)' /\ req'[r].op = "burn"
    OBVIOUS
  <2>1. PICK r \in Reqs : Holds(r, t) /\ req[r].op = "burn"
    BY <1>1 DEF LinkOK
  <2>2. QED BY <2>1
<1>6. QED BY <1>2, <1>3, <1>4, <1>5 DEF LinkOK

\* A request that holds no token, before and after.
LEMMA PlainRequest ==
  ASSUME IdentityInv, NEW r \in Reqs, NEW y \in ReqRec, Becomes(r, y),
         req[r].tok = 0, y.tok = 0,
         UNCHANGED <<toks, uses, loose>>
  PROVE  LinksOK'
<1>1. req'[r] = y /\ \A s \in Reqs : s # r => req'[s] = req[s]
  BY BecomesOne DEF IdentityInv
<1>2. \A t \in Toks : \A s \in Reqs : (Holds(s, t)' <=> Holds(s, t)) /\ (Holds(s, t) => req'[s].op = req[s].op)
  <2> SUFFICES ASSUME NEW t \in Toks, NEW s \in Reqs
               PROVE  (Holds(s, t)' <=> Holds(s, t)) /\ (Holds(s, t) => req'[s].op = req[s].op)
    OBVIOUS
  <2>1. t # 0
    BY DEF Toks
  <2>2. QED BY <1>1, <2>1 DEF Holds
<1>3. QED BY <1>2, LinkStays DEF IdentityInv, LinksOK

\* A request that holds no token moves among the accounts that exist.
LEMMA PlainStep ==
  ASSUME IdentityInv, NEW r \in Reqs, NEW y \in ReqRec, Becomes(r, y),
         req[r].tok = 0, y.tok = 0,
         UNCHANGED <<accounts, toks, uses, loose, acked>>, UNCHANGED profile,
         y = Idle \/ (y.op \notin {"idle", "use", "burn"} /\ y.of \in Emails),
         y.op \in {"idle", "register", "create"} \/ rows[y.of] = 1,
         y.op = "edit" => y.field \in Fields
  PROVE  IdentityInv'
<1>1. req' \in [Reqs -> ReqRec] /\ req'[r] = y /\ \A s \in Reqs : s # r => req'[s] = req[s]
  BY BecomesOne DEF IdentityInv
<1>2. TypeOK'
  BY <1>1 DEF IdentityInv, TypeOK, accounts, ReqRec, Exists
<1>3. RequestsOK'
  <2>1. RequestOK(r)'
    BY <1>1, IdleFields DEF RequestOK, accounts
  <2>2. QED BY <1>1, <2>1, Unmoved DEF IdentityInv, RequestsOK, accounts
<1>4. TokensOK'
  BY TokensStay DEF IdentityInv, TokensOK, accounts
<1>5. LinksOK'
  BY PlainRequest
<1>6. ProfilesOK'
  BY DEF IdentityInv, ProfilesOK, accounts
<1>7. QED BY <1>2, <1>3, <1>4, <1>5, <1>6 DEF IdentityInv

-----------------------------------------------------------------------------
(* Requests that read.                                                       *)

LEMMA CreateReadKeeps ==
  ASSUME IdentityInv, NEW r \in Reqs, NEW e \in Emails, CreateRead(r, e)
  PROVE  IdentityInv'
<1>1. PICK op \in {"register", "create"} : Becomes(r, Doing(op, e))
  BY DEF CreateRead
<1>2. Doing(op, e) \in ReqRec /\ Doing(op, e).op = op /\ Doing(op, e).of = e /\ Doing(op, e).tok = 0
  BY DoingFields DEF Ops
<1>3. req[r].tok = 0
  BY IdleFields DEF CreateRead
<1>4. QED BY <1>1, <1>2, <1>3, PlainStep DEF CreateRead

LEMMA LinkReadKeeps ==
  ASSUME IdentityInv, NEW r \in Reqs, NEW e \in Emails, ResendRead(r, e) \/ ForgotRead(r, e)
  PROVE  IdentityInv'
<1>1. PICK op \in {"verifylink", "resetlink"} : Becomes(r, Doing(op, e))
  BY DEF ResendRead, ForgotRead
<1>2. Doing(op, e) \in ReqRec /\ Doing(op, e).op = op /\ Doing(op, e).of = e /\ Doing(op, e).tok = 0
  BY DoingFields DEF Ops
<1>3. req[r].tok = 0 /\ rows[e] = 1
  BY IdleFields, Types DEF ResendRead, ForgotRead, Exists, IdentityInv
<1>4. UNCHANGED <<accounts, toks, uses, loose, acked>> /\ UNCHANGED profile
  BY DEF ResendRead, ForgotRead
<1>5. QED BY <1>1, <1>2, <1>3, <1>4, PlainStep

LEMMA EditReadKeeps ==
  ASSUME IdentityInv, NEW r \in Reqs, NEW e \in Emails, NEW f \in Fields, EditRead(r, e, f)
  PROVE  IdentityInv'
<1> DEFINE y == [Doing("edit", e) EXCEPT !.field = f, !.seen = profile[e] # NoProfile]
<1>1. Doing("edit", e) \in ReqRec /\ Doing("edit", e).op = "edit"
      /\ Doing("edit", e).of = e /\ Doing("edit", e).tok = 0
  BY DoingFields DEF Ops
<1>2. y \in ReqRec /\ y.op = "edit" /\ y.of = e /\ y.tok = 0 /\ y.field = f
  BY <1>1 DEF ReqRec
<1>3. Becomes(r, y) /\ UNCHANGED <<accounts, toks, uses, loose, acked>> /\ UNCHANGED profile
  BY DEF EditRead
<1>4. req[r].tok = 0 /\ rows[e] = 1
  BY IdleFields, Types DEF EditRead, Exists, IdentityInv
<1> HIDE DEF y
<1>5. QED BY <1>2, <1>3, <1>4, PlainStep

\* A request that gives up or is over, and held nothing.
LEMMA EndsKeeps ==
  ASSUME IdentityInv, NEW r \in Reqs, Becomes(r, Idle), req[r].tok = 0,
         UNCHANGED <<accounts, toks, uses, loose, acked>>, UNCHANGED profile
  PROVE  IdentityInv'
  BY IdleFields, PlainStep

LEMMA LinkFailsKeeps ==
  ASSUME IdentityInv, NEW r \in Reqs, LinkFails(r)
  PROVE  IdentityInv'
<1>1. req[r].tok = 0
  BY DEF LinkFails, Linking, IdentityInv, RequestsOK, RequestOK
<1>2. QED BY <1>1, EndsKeeps DEF LinkFails

-----------------------------------------------------------------------------
(* Accounts and profiles.                                                    *)

LEMMA CreateCommitKeeps ==
  ASSUME IdentityInv, NEW r \in Reqs, CreateCommit(r)
  PROVE  IdentityInv'
<1> DEFINE e == req[r].of
           customer == req[r].op = "register"
           op == IF customer THEN "verifylink" ELSE "setuplink"
           y == Doing(op, e)
<1>1. e \in Emails /\ req[r].tok = 0
  BY DEF CreateCommit, Creating, IdentityInv, RequestsOK, RequestOK
<1>2. CASE Exists(e)
  <2>1. Becomes(r, Idle) /\ UNCHANGED <<accounts, toks, uses, loose, acked>> /\ UNCHANGED profile
    BY <1>2 DEF CreateCommit
  <2>2. QED BY <1>1, <2>1, EndsKeeps
<1>3. CASE ~Exists(e)
  <2>1. /\ rows' = [rows EXCEPT ![e] = 1] /\ active' = active \cup {e} /\ Becomes(r, y)
        /\ usable' \in {usable, usable \cup {e}}
        /\ profile' \in {profile, [profile EXCEPT ![e] = {}]}
        /\ UNCHANGED <<verified, recent, toks, uses, loose, acked>>
    BY <1>3, Zenon DEF CreateCommit
  <2>2. y \in ReqRec /\ y.op = op /\ y.of = e /\ y.tok = 0 /\ op \in {"verifylink", "setuplink"}
    BY <1>1, DoingFields DEF Ops
  <2> HIDE DEF y, op
  <2>3. req' \in [Reqs -> ReqRec] /\ req'[r] = y /\ \A s \in Reqs : s # r => req'[s] = req[s]
    BY <2>1, <2>2, BecomesOne DEF IdentityInv
  <2>4. rows' \in [Emails -> 0..1] /\ rows'[e] = 1 /\ rows[e] = 0
        /\ \A x \in Emails : x # e => rows'[x] = rows[x]
    BY <1>1, <1>3, <2>1, Types DEF IdentityInv, Exists
  <2> HIDE DEF e
  <2>5. {active, verified, usable, recent}' \subseteq SUBSET {x \in Emails : Exists(x)}'
    <3>1. \A x \in Emails : rows[x] = 1 => Exists(x)'
      BY <2>4 DEF Exists
    <3>2. \A x \in Emails : Exists(x) => Exists(x)'
      BY <2>4, <3>1, Types DEF Exists, IdentityInv
    <3>3. rows'[e] > 0
      BY <2>4, <1>1 DEF Exists
    <3>4. {active, verified, usable, recent} \subseteq SUBSET {x \in Emails : Exists(x)}
      BY DEF IdentityInv, TypeOK
    <3>5. \A a \in {active, verified, usable, recent} : \A x \in a : x \in Emails /\ Exists(x)
      BY <3>4
    <3>6. \A a \in {active', verified', usable', recent'} : \A x \in a : x \in Emails /\ rows'[x] > 0
      BY <1>1, <2>1, <3>2, <3>3, <3>5 DEF Exists
    <3>7. QED BY <3>6 DEF Exists
  <2>6. TypeOK'
    <3>1. profile' \in [Emails -> {NoProfile} \cup SUBSET Fields]
      BY <1>1, <2>1, Types DEF IdentityInv
    <3>2. QED BY <2>1, <2>3, <2>4, <2>5, <3>1 DEF IdentityInv, TypeOK, ReqRec
  <2>7. RequestsOK'
    <3>1. RequestOK(r)'
      BY <1>1, <2>2, <2>3, <2>4 DEF RequestOK
    <3>2. \A x \in Emails : rows[x] = 1 => rows'[x] = 1
      BY <2>4
    <3>3. QED BY <2>1, <2>3, <3>1, <3>2, Unmoved DEF IdentityInv, RequestsOK
  <2>8. TokensOK'
    BY <2>1, <2>4, TokensStay DEF IdentityInv, TokensOK
  <2>9. LinksOK'
    BY <1>1, <2>1, <2>2, PlainRequest
  <2>10. ProfilesOK'
    <3> SUFFICES ASSUME NEW x \in Emails
                 PROVE  acked'[x] \subseteq profile'[x] /\ (rows'[x] = 0 => profile'[x] = NoProfile)
      BY DEF ProfilesOK
    <3>1. acked[x] \subseteq profile[x] /\ (rows[x] = 0 => profile[x] = NoProfile) /\ acked[x] \subseteq Fields
      BY Types DEF ProfilesOK, IdentityInv
    <3>2. CASE x = e
      <4>1. acked[e] = {}
        BY <2>4, <3>1, <3>2 DEF NoProfile
      <4>2. QED BY <2>1, <2>4, <3>2, <4>1
    <3>3. CASE x # e
      <4>1. profile'[x] = profile[x]
        BY <2>1, <3>3, Types DEF IdentityInv
      <4>2. QED BY <2>1, <2>4, <3>1, <3>3, <4>1
    <3>4. QED BY <3>2, <3>3
  <2>11. QED BY <2>6, <2>7, <2>8, <2>9, <2>10 DEF IdentityInv
<1>4. QED BY <1>2, <1>3

LEMMA EditCommitKeeps ==
  ASSUME IdentityInv, NEW r \in Reqs, EditCommit(r)
  PROVE  IdentityInv'
<1> DEFINE e == req[r].of
           f == req[r].field
<1>1. e \in Emails /\ f \in Fields /\ req[r].tok = 0 /\ rows[e] = 1
  BY DEF EditCommit, IdentityInv, RequestsOK, RequestOK
<1>2. /\ profile' = [profile EXCEPT ![e] = IF profile[e] = NoProfile THEN {f} ELSE profile[e] \cup {f}]
      /\ acked' = [acked EXCEPT ![e] = acked[e] \cup {f}]
      /\ Becomes(r, Idle) /\ UNCHANGED <<accounts, toks, uses, loose>>
  BY DEF EditCommit
<1> HIDE DEF e, f
<1>3. req' \in [Reqs -> ReqRec] /\ req'[r] = Idle /\ \A s \in Reqs : s # r => req'[s] = req[s]
  BY <1>2, IdleFields, BecomesOne DEF IdentityInv
<1>4. /\ profile' \in [Emails -> {NoProfile} \cup SUBSET Fields]
      /\ acked' \in [Emails -> SUBSET Fields]
  <2>1. profile[e] = NoProfile \/ profile[e] \subseteq Fields
    BY <1>1, Types DEF IdentityInv
  <2>2. QED BY <1>1, <1>2, <2>1, Types DEF IdentityInv
<1>5. TypeOK'
  BY <1>2, <1>3, <1>4 DEF IdentityInv, TypeOK, accounts, Exists, ReqRec
<1>6. RequestsOK'
  <2>1. RequestOK(r)'
    BY <1>3, IdleFields DEF RequestOK
  <2>2. QED BY <1>2, <1>3, <2>1, Unmoved DEF IdentityInv, RequestsOK, accounts
<1>7. TokensOK'
  BY <1>2, TokensStay DEF IdentityInv, TokensOK, accounts
<1>8. LinksOK'
  BY <1>1, <1>2, IdleFields, PlainRequest
<1>9. ProfilesOK'
  <2> SUFFICES ASSUME NEW x \in Emails
               PROVE  acked'[x] \subseteq profile'[x] /\ (rows'[x] = 0 => profile'[x] = NoProfile)
    BY DEF ProfilesOK
  <2>1. acked[x] \subseteq profile[x] /\ (rows[x] = 0 => profile[x] = NoProfile) /\ acked[x] \subseteq Fields
    BY Types DEF ProfilesOK, IdentityInv
  <2>2. CASE x = e
    <3>1. acked'[e] = acked[e] \cup {f} /\ rows'[e] = 1
      BY <1>1, <1>2, Types DEF IdentityInv, accounts
    <3>2. profile'[e] = IF profile[e] = NoProfile THEN {f} ELSE profile[e] \cup {f}
      BY <1>1, <1>2, Types DEF IdentityInv
    <3>3. profile[e] = NoProfile => acked[e] = {}
      BY <2>1, <2>2 DEF NoProfile
    <3>4. QED BY <2>1, <2>2, <3>1, <3>2, <3>3
  <2>3. CASE x # e
    <3>1. profile'[x] = profile[x] /\ acked'[x] = acked[x] /\ rows'[x] = rows[x]
      BY <1>2, <2>3, Types DEF IdentityInv, accounts
    <3>2. QED BY <2>1, <3>1
  <2>4. QED BY <2>2, <2>3
<1>10. QED BY <1>5, <1>6, <1>7, <1>8, <1>9 DEF IdentityInv

-----------------------------------------------------------------------------
(* Tokens.                                                                   *)

LEMMA LeastElement ==
  ASSUME NEW T, T \subseteq Nat, T # {}
  PROVE  \E x \in T : \A y \in T : x <= y
<1>1. PICK x \in T : \A y \in T : ~(<<y, x>> \in OpToRel(<, Nat))
  BY WFMin, NatLessThanWellFounded, Zenon
<1>2. ASSUME NEW y \in T
      PROVE  x <= y
  <2>1. y < x => <<y, x>> \in OpToRel(<, Nat)
    BY DEF OpToRel
  <2>2. ~(y < x)
    BY <1>1, <2>1, Zenon
  <2>3. x \in Nat /\ y \in Nat
    OBVIOUS
  <2>4. QED BY <2>2, <2>3
<1>3. QED BY <1>2

LEMMA FreshIsFree ==
  ASSUME Free # {}
  PROVE  Fresh \in Toks /\ toks[Fresh].kind = "none"
<1>1. Free \subseteq Nat
  BY DEF Free, Toks
<1>2. \E t \in Free : \A s \in Free : t <= s
  BY <1>1, LeastElement
<1>3. Fresh \in Free
  BY <1>2, Zenon DEF Fresh
<1>4. QED BY <1>3 DEF Free

\* A link that the moving request neither holds nor takes up.
LEMMA OtherLink ==
  ASSUME IdentityInv, NEW r \in Reqs, NEW y \in ReqRec, Becomes(r, y),
         NEW t \in Toks, req[r].tok # t, y.tok # t,
         toks'[t].kind = toks[t].kind, toks'[t].live => toks[t].live, uses'[t] = uses[t],
         t \notin loose' => t \notin loose
  PROVE  toks'[t].kind \in Links /\ t \notin loose' => LinkOK(t)'
<1>1. req'[r] = y /\ \A s \in Reqs : s # r => req'[s] = req[s]
  BY BecomesOne DEF IdentityInv
<1>2. \A s \in Reqs : (Holds(s, t)' <=> Holds(s, t)) /\ (Holds(s, t) => req'[s].op = req[s].op)
  BY <1>1 DEF Holds
<1>3. QED BY <1>2, LinkStays DEF IdentityInv

\* A new token is held by nobody and has done nothing.
LEMMA IssueKeeps ==
  ASSUME IdentityInv, Free # {}, NEW r \in Reqs, req[r].tok = 0,
         UNCHANGED req \/ Becomes(r, Idle),
         NEW kind \in {"verify", "reset", "refresh"}, NEW e \in Emails, rows[e] = 1,
         toks' = [toks EXCEPT ![Fresh] = Token(kind, e)],
         {active', verified', usable', recent'} \subseteq SUBSET {x \in Emails : rows[x] > 0},
         UNCHANGED <<rows, profile, uses, loose, acked>>
  PROVE  IdentityInv'
<1>1. Fresh \in Toks /\ toks[Fresh].kind = "none"
  BY FreshIsFree
<1> DEFINE n == Fresh
<1>2. toks' \in [Toks -> TokRec] /\ toks'[n] = Token(kind, e)
      /\ \A t \in Toks : t # n => toks'[t] = toks[t]
  BY <1>1, Types DEF IdentityInv, Token, TokRec
<1>3. toks'[n].kind = kind /\ toks'[n].of = e /\ toks'[n].live
  BY <1>2 DEF Token
<1>4. uses[n] = 0
  BY <1>1 DEF IdentityInv, TokensOK, TokenOK
<1>5. \A s \in Reqs : req[s].tok # n
  BY <1>1 DEF IdentityInv, RequestsOK, RequestOK, Links, Toks
<1>6. /\ req' \in [Reqs -> ReqRec] /\ req'[r] \in {req[r], Idle}
      /\ \A s \in Reqs : s # r => req'[s] = req[s]
  BY Types, IdleFields, BecomesOne DEF IdentityInv
<1>7. \A s \in Reqs : req'[s].tok = req[s].tok /\ (req[s].tok # 0 => req'[s] = req[s])
  BY <1>6, IdleFields
<1> HIDE DEF n
<1>8. \A s \in Reqs : req'[s].tok # n
  BY <1>5, <1>7
<1>9. TypeOK'
  BY <1>2, <1>6 DEF IdentityInv, TypeOK, Exists, ReqRec, TokRec
<1>10. RequestsOK'
  <2>1. \A t \in Toks : toks[t].kind \in Links => toks'[t].kind \in Links
    BY <1>1, <1>2 DEF n, Links
  <2>2. \A s \in Reqs : req'[s] = req[s] => RequestOK(s)'
    BY <2>1, Unmoved DEF IdentityInv
  <2>3. req'[r] = Idle => RequestOK(r)'
    BY IdleFields DEF RequestOK
  <2>4. QED BY <1>6, <2>2, <2>3 DEF RequestsOK
<1>11. TokensOK'
  <2> SUFFICES ASSUME NEW t \in Toks PROVE TokenOK(t)'
    BY DEF TokensOK
  <2>1. CASE t = n
    BY <1>3, <1>4, <2>1 DEF TokenOK
  <2>2. CASE t # n
    BY <1>2, <2>2, TokensStay DEF IdentityInv
  <2>3. QED BY <2>1, <2>2
<1>12. LinksOK'
  <2> SUFFICES ASSUME NEW t \in Toks, toks'[t].kind \in Links, t \notin loose' PROVE LinkOK(t)'
    BY DEF LinksOK
  <2>1. CASE t = n
    BY <1>4, <1>8, <2>1 DEF LinkOK, Holds
  <2>2. CASE t # n
    <3>1. \A s \in Reqs : (Holds(s, t)' <=> Holds(s, t)) /\ (Holds(s, t) => req'[s].op = req[s].op)
      <4>1. t # 0
        BY DEF Toks
      <4>2. QED BY <1>7, <4>1 DEF Holds
    <3>2. toks'[t] = toks[t]
      BY <1>2, <2>2
    <3>3. QED BY <3>1, <3>2, LinkStays DEF IdentityInv
  <2>3. QED BY <2>1, <2>2
<1>13. ProfilesOK'
  BY DEF IdentityInv, ProfilesOK
<1>14. QED BY <1>9, <1>10, <1>11, <1>12, <1>13 DEF IdentityInv

\* The sets of accounts hold accounts that exist.
LEMMA AccountSets ==
  ASSUME TypeOK
  PROVE  \A a \in {active, verified, usable, recent} : a \subseteq {x \in Emails : rows[x] > 0}
  BY DEF TypeOK, Exists

LEMMA LinkKeeps ==
  ASSUME IdentityInv, NEW r \in Reqs, Link(r)
  PROVE  IdentityInv'
<1> DEFINE e == req[r].of
           kind == IF req[r].op = "verifylink" THEN "verify" ELSE "reset"
<1>1. e \in Emails /\ rows[e] = 1 /\ req[r].tok = 0
  BY DEF Link, Linking, IdentityInv, RequestsOK, RequestOK
<1>2. /\ Free # {} /\ toks' = [toks EXCEPT ![Fresh] = Token(kind, e)] /\ Becomes(r, Idle)
      /\ recent' = (IF kind = "verify" THEN recent \cup {e} ELSE recent)
      /\ UNCHANGED <<rows, active, verified, usable, profile, uses, loose, acked>>
  BY DEF Link
<1>3. kind \in {"verify", "reset", "refresh"}
  OBVIOUS
<1> HIDE DEF e, kind
<1>4. {active', verified', usable', recent'} \subseteq SUBSET {x \in Emails : rows[x] > 0}
  BY <1>1, <1>2, AccountSets DEF IdentityInv
<1>5. QED BY <1>1, <1>2, <1>3, <1>4, IssueKeeps

LEMMA LoginKeeps ==
  ASSUME IdentityInv, NEW r \in Reqs, NEW e \in Emails, Login(r, e)
  PROVE  IdentityInv'
<1>1. rows[e] = 1 /\ req[r].tok = 0
  BY AccountSets, Types, IdleFields DEF Login, IdentityInv
<1>2. {active', verified', usable', recent'} \subseteq SUBSET {x \in Emails : rows[x] > 0}
  BY AccountSets DEF IdentityInv, Login, accounts
<1>3. /\ Free # {} /\ toks' = [toks EXCEPT ![Fresh] = Token("refresh", e)]
      /\ UNCHANGED <<rows, req, profile, uses, loose, acked>>
  BY DEF Login, accounts
<1>4. QED BY <1>1, <1>2, <1>3, IssueKeeps

LEMMA RenewKeeps ==
  ASSUME IdentityInv, NEW r \in Reqs, Renew(r)
  PROVE  IdentityInv'
<1> DEFINE e == req[r].of
<1>1. e \in Emails /\ rows[e] = 1 /\ req[r].tok = 0
  BY DEF Renew, IdentityInv, RequestsOK, RequestOK
<1>2. Becomes(r, Idle) /\ UNCHANGED <<accounts, profile, uses, loose, acked>>
  BY DEF Renew
<1>3. CASE e \in active
  <2>1. Free # {} /\ toks' = [toks EXCEPT ![Fresh] = Token("refresh", e)]
    BY <1>3 DEF Renew
  <2> HIDE DEF e
  <2>2. {active', verified', usable', recent'} \subseteq SUBSET {x \in Emails : rows[x] > 0}
    BY <1>2, AccountSets DEF IdentityInv, accounts
  <2>3. QED BY <1>1, <1>2, <2>1, <2>2, IssueKeeps DEF accounts
<1>4. CASE e \notin active
  <2>1. UNCHANGED toks
    BY <1>4 DEF Renew
  <2>2. QED BY <1>1, <1>2, <2>1, EndsKeeps
<1>5. QED BY <1>3, <1>4

\* A token dies.
LEMMA Dead ==
  ASSUME TypeOK, NEW t \in Toks, toks' = [toks EXCEPT ![t].live = FALSE]
  PROVE  /\ toks' \in [Toks -> TokRec] /\ toks'[t].kind = toks[t].kind /\ toks'[t].of = toks[t].of
         /\ ~toks'[t].live /\ \A s \in Toks : s # t => toks'[s] = toks[s]
<1> DEFINE k == toks[t]
           n == [k EXCEPT !.live = FALSE]
<1>1. toks \in [Toks -> TokRec] /\ k \in TokRec
  BY Types
<1>2. n \in TokRec /\ n.kind = k.kind /\ n.of = k.of /\ ~n.live
  BY <1>1 DEF TokRec
<1>3. toks' = [toks EXCEPT ![t] = n]
  OBVIOUS
<1> HIDE DEF n
<1>4. toks' \in [Toks -> TokRec] /\ toks'[t] = n /\ \A s \in Toks : s # t => toks'[s] = toks[s]
  BY <1>1, <1>2, <1>3
<1>5. QED BY <1>2, <1>4

\* A step that only takes life from tokens.
LEMMA VanishKeeps ==
  ASSUME IdentityInv, NEW t \in Toks, Vanish(t)
  PROVE  IdentityInv'
<1>1. /\ toks' \in [Toks -> TokRec] /\ toks'[t].kind = toks[t].kind /\ toks'[t].of = toks[t].of
      /\ ~toks'[t].live /\ toks[t].live
      /\ \A s \in Toks : s # t => toks'[s] = toks[s]
      /\ UNCHANGED <<accounts, profile, req, uses, loose, acked>>
  BY Types DEF Vanish, IdentityInv, TokRec
<1>2. TypeOK'
  BY <1>1 DEF IdentityInv, TypeOK, accounts, Exists, TokRec
<1>3. RequestsOK'
  <2>1. \A s \in Toks : toks'[s].kind = toks[s].kind
    BY <1>1
  <2>2. QED BY <1>1, <2>1, Unmoved DEF IdentityInv, RequestsOK, accounts
<1>4. TokensOK'
  <2> SUFFICES ASSUME NEW s \in Toks PROVE TokenOK(s)'
    BY DEF TokensOK
  <2>1. TokenOK(s)
    BY DEF IdentityInv, TokensOK
  <2>2. CASE s = t
    BY <1>1, <2>1, <2>2 DEF TokenOK, accounts
  <2>3. CASE s # t
    BY <1>1, <2>1, <2>3 DEF TokenOK, accounts
  <2>4. QED BY <2>2, <2>3
<1>5. LinksOK'
  <2> SUFFICES ASSUME NEW s \in Toks PROVE toks'[s].kind \in Links /\ s \notin loose' => LinkOK(s)'
    BY DEF LinksOK
  <2>1. toks'[s].kind = toks[s].kind /\ (toks'[s].live => toks[s].live)
    BY <1>1
  <2>2. \A r \in Reqs : (Holds(r, s)' <=> Holds(r, s)) /\ req'[r].op = req[r].op
    BY <1>1 DEF Holds
  <2>3. QED BY <1>1, <2>1, <2>2, LinkStays DEF IdentityInv
<1>6. ProfilesOK'
  BY <1>1 DEF IdentityInv, ProfilesOK, accounts
<1>7. QED BY <1>2, <1>3, <1>4, <1>5, <1>6 DEF IdentityInv

LEMMA UseReadKeeps ==
  ASSUME IdentityInv, NEW r \in Reqs, NEW t \in Toks, UseRead(r, t)
  PROVE  IdentityInv'
<1> DEFINE e == toks[t].of
           d == Doing("use", e)
           y == [d EXCEPT !.tok = t]
<1>1. e \in Emails /\ rows[e] = 1 /\ toks[t].live /\ toks[t].kind \in Links
  BY DEF UseRead, IdentityInv, TokensOK, TokenOK, Links
<1>2. d \in ReqRec /\ d.op = "use" /\ d.of = e
  BY <1>1, DoingFields DEF Ops
<1>3. y \in ReqRec /\ y.op = "use" /\ y.of = e /\ y.tok = t
  BY <1>2 DEF ReqRec, Toks
<1>4. /\ Becomes(r, y) /\ req[r].tok = 0
      /\ loose' = (IF \E s \in Reqs : Holds(s, t) THEN loose \cup {t} ELSE loose)
      /\ UNCHANGED <<accounts, profile, toks, uses, acked>>
  BY IdleFields DEF UseRead
<1> HIDE DEF d, y
<1>5. req' \in [Reqs -> ReqRec] /\ req'[r] = y /\ \A s \in Reqs : s # r => req'[s] = req[s]
  BY <1>3, <1>4, BecomesOne DEF IdentityInv
<1>6. TypeOK'
  <2>1. loose' \subseteq Toks
    BY <1>4, Types DEF IdentityInv
  <2>2. QED BY <1>4, <1>5, <2>1 DEF IdentityInv, TypeOK, accounts, Exists, ReqRec
<1>7. RequestsOK'
  <2>1. RequestOK(r)'
    BY <1>1, <1>3, <1>4, <1>5 DEF RequestOK, accounts
  <2>2. QED BY <1>4, <1>5, <2>1, Unmoved DEF IdentityInv, RequestsOK, accounts
<1>8. TokensOK'
  BY <1>4, TokensStay DEF IdentityInv, TokensOK, accounts
<1>9. LinksOK'
  <2> SUFFICES ASSUME NEW s \in Toks, toks'[s].kind \in Links, s \notin loose' PROVE LinkOK(s)'
    BY DEF LinksOK
  <2>1. CASE s = t
    <3>1. \A q \in Reqs : ~Holds(q, t)
      BY <1>4, <2>1
    <3>2. t \notin loose
      BY <1>4, <2>1, <3>1
    <3>3. uses[t] = 0
      BY <1>1, <3>1, <3>2 DEF IdentityInv, LinksOK, LinkOK
    <3>4. \A q \in Reqs : Holds(q, t)' => q = r
      BY <1>5, <3>1 DEF Holds
    <3>5. QED BY <1>4, <2>1, <3>3, <3>4 DEF LinkOK
  <2>2. CASE s # t
    <3>1. req[r].tok # s /\ y.tok # s
      BY <1>3, <1>4, <2>2 DEF Toks
    <3>2. s \notin loose' => s \notin loose
      BY <1>4, <2>2
    <3>3. QED BY <1>3, <1>4, <3>1, <3>2, OtherLink
  <2>3. QED BY <2>1, <2>2
<1>10. ProfilesOK'
  BY <1>4 DEF IdentityInv, ProfilesOK, accounts
<1>11. QED BY <1>6, <1>7, <1>8, <1>9, <1>10 DEF IdentityInv

LEMMA UseCommitKeeps ==
  ASSUME IdentityInv, NEW r \in Reqs, UseCommit(r)
  PROVE  IdentityInv'
<1> DEFINE e == req[r].of
           t == req[r].tok
           q == req[r]
           y == [q EXCEPT !.op = "burn"]
<1>1. e \in Emails /\ rows[e] = 1 /\ t \in Toks /\ toks[t].kind \in Links /\ q \in ReqRec /\ q.op = "use"
  BY Types DEF UseCommit, IdentityInv, RequestsOK, RequestOK
<1>2. y \in ReqRec /\ y.op = "burn" /\ y.of = e /\ y.tok = t
  BY <1>1 DEF ReqRec, Ops
<1>3. Becomes(r, y)
  BY DEF UseCommit, Becomes
<1>4. /\ verified' \in {verified, verified \cup {e}} /\ usable' \in {usable, usable \cup {e}}
      /\ uses' = [uses EXCEPT ![t] = IF uses[t] = 0 THEN 1 ELSE 2]
      /\ UNCHANGED <<rows, active, recent, profile, toks, loose, acked>>
  <2>1. /\ verified' \in {verified, verified \cup {e}} /\ usable' \in {usable, usable \cup {e}}
    BY DEF UseCommit
  <2>2. QED BY <2>1 DEF UseCommit, Used
<1> HIDE DEF e, t, q, y
<1>5. req' \in [Reqs -> ReqRec] /\ req'[r] = y /\ \A s \in Reqs : s # r => req'[s] = req[s]
  BY <1>2, <1>3, BecomesOne DEF IdentityInv
<1>6. uses' \in [Toks -> 0..2] /\ \A s \in Toks : s # t => uses'[s] = uses[s]
  BY <1>1, <1>4, Types DEF IdentityInv
<1>7. TypeOK'
  <2>1. {active', verified', usable', recent'} \subseteq SUBSET {x \in Emails : rows[x] > 0}
    BY <1>1, <1>4, AccountSets DEF IdentityInv
  <2>2. QED BY <1>4, <1>5, <1>6, <2>1 DEF IdentityInv, TypeOK, Exists, ReqRec
<1>8. RequestsOK'
  <2>1. RequestOK(r)'
    BY <1>1, <1>2, <1>4, <1>5 DEF RequestOK
  <2>2. QED BY <1>4, <1>5, <2>1, Unmoved DEF IdentityInv, RequestsOK
<1>9. TokensOK'
  <2> SUFFICES ASSUME NEW s \in Toks PROVE TokenOK(s)'
    BY DEF TokensOK
  <2>1. CASE s = t
    <3>1. toks'[t].kind \in Links
      BY <1>1, <1>4
    <3>2. QED BY <1>4, <2>1, <3>1 DEF TokenOK, Links, IdentityInv, TokensOK
  <2>2. CASE s # t
    BY <1>4, <1>6, <2>2, TokensStay DEF IdentityInv
  <2>3. QED BY <2>1, <2>2
<1>10. LinksOK'
  <2> SUFFICES ASSUME NEW s \in Toks, toks'[s].kind \in Links, s \notin loose' PROVE LinkOK(s)'
    BY DEF LinksOK
  <2>1. CASE s = t
    <3>1. LinkOK(t)
      BY <1>1, <1>4, <2>1 DEF IdentityInv, LinksOK
    <3>2. Holds(r, t) /\ req[r].op = "use"
      BY <1>1 DEF Holds, t, q
    <3>3. uses[t] = 0 /\ \A p \in Reqs : Holds(p, t) => p = r
      BY <3>1, <3>2 DEF LinkOK
    <3>4. uses'[t] = 1
      BY <1>1, <1>4, <3>3, Types DEF IdentityInv
    <3>5. \A p \in Reqs : p # r => req'[p].tok # t
      BY <1>5, <3>3 DEF Holds
    <3>6. req'[r].tok = t /\ req'[r].op = "burn"
      BY <1>2, <1>5
    <3>7. QED BY <2>1, <3>4, <3>5, <3>6 DEF LinkOK, Holds
  <2>2. CASE s # t
    <3>1. req[r].tok # s /\ y.tok # s
      BY <1>2, <2>2 DEF t
    <3>2. QED BY <1>2, <1>3, <1>4, <1>6, <2>2, <3>1, OtherLink
  <2>3. QED BY <2>1, <2>2
<1>11. ProfilesOK'
  BY <1>4 DEF IdentityInv, ProfilesOK
<1>12. QED BY <1>7, <1>8, <1>9, <1>10, <1>11 DEF IdentityInv

\* A request lets go of the link it held; its work is undone or the link is
\* dead or loose.
LEMMA LettingGo ==
  ASSUME IdentityInv, NEW r \in Reqs, Becomes(r, Idle), NEW t \in Toks, req[r].tok = t,
         toks' \in [Toks -> TokRec], \A s \in Toks : s # t => toks'[s] = toks[s],
         toks'[t].kind = toks[t].kind, toks'[t].of = toks[t].of, toks'[t].live => toks[t].live,
         loose' \in {loose, loose \cup {t}},
         req[r].op = "burn" => t \in loose' \/ ~toks'[t].live,
         UNCHANGED <<accounts, profile, uses, acked>>
  PROVE  IdentityInv'
<1>1. req' \in [Reqs -> ReqRec] /\ req'[r] = Idle /\ \A s \in Reqs : s # r => req'[s] = req[s]
  BY IdleFields, BecomesOne DEF IdentityInv
<1>2. \A s \in Toks : toks'[s].kind = toks[s].kind /\ toks'[s].of = toks[s].of
                      /\ (toks'[s].live => toks[s].live)
  OBVIOUS
<1>3. TypeOK'
  <2>1. loose' \subseteq Toks
    BY Types DEF IdentityInv
  <2>2. QED BY <1>1, <2>1 DEF IdentityInv, TypeOK, accounts, Exists, ReqRec, TokRec
<1>4. RequestsOK'
  <2>1. RequestOK(r)'
    BY <1>1, IdleFields DEF RequestOK
  <2>2. QED BY <1>1, <1>2, <2>1, Unmoved DEF IdentityInv, RequestsOK, accounts
<1>5. TokensOK'
  <2> SUFFICES ASSUME NEW s \in Toks PROVE TokenOK(s)'
    BY DEF TokensOK
  <2>1. TokenOK(s)
    BY DEF IdentityInv, TokensOK
  <2>2. QED BY <1>2, <2>1 DEF TokenOK, accounts
<1>6. LinksOK'
  <2> SUFFICES ASSUME NEW s \in Toks, toks'[s].kind \in Links, s \notin loose' PROVE LinkOK(s)'
    BY DEF LinksOK
  <2>1. CASE s = t
    <3>1. t \notin loose /\ toks[t].kind \in Links
      BY <2>1
    <3>2. LinkOK(t)
      BY <3>1 DEF IdentityInv, LinksOK
    <3>3. Holds(r, t)
      BY DEF Holds
    <3>4. \A p \in Reqs : ~Holds(p, t)'
      <4>1. t # 0
        BY DEF Toks
      <4>2. QED BY <1>1, <3>2, <3>3, <4>1, IdleFields DEF LinkOK, Holds
    <3>5. req[r].op \in {"use", "burn"}
      <4>1. t # 0
        BY DEF Toks
      <4>2. QED BY <4>1 DEF IdentityInv, RequestsOK, RequestOK
    <3>6. uses[t] = 0 \/ ~toks'[t].live
      BY <2>1, <3>2, <3>3, <3>5 DEF LinkOK
    <3>7. (uses[t] = 0 \/ uses[t] = 1) /\ uses' = uses
      BY <3>2 DEF LinkOK
    <3>8. QED BY <2>1, <3>4, <3>6, <3>7 DEF LinkOK
  <2>2. CASE s # t
    <3>1. s # 0
      BY DEF Toks
    <3>2. s \notin loose' => s \notin loose
      BY <2>2
    <3>3. QED BY <1>2, <2>2, <3>1, <3>2, OtherLink, IdleFields
  <2>3. QED BY <2>1, <2>2
<1>7. ProfilesOK'
  BY DEF IdentityInv, ProfilesOK, accounts
<1>8. QED BY <1>3, <1>4, <1>5, <1>6, <1>7 DEF IdentityInv

LEMMA BurnKeeps ==
  ASSUME IdentityInv, NEW r \in Reqs, Burn(r)
  PROVE  IdentityInv'
<1> DEFINE t == req[r].tok
<1>1. t \in Toks
  BY DEF Burn, IdentityInv, RequestsOK, RequestOK
<1>2. toks' = [toks EXCEPT ![t].live = FALSE] /\ Becomes(r, Idle)
      /\ UNCHANGED <<accounts, profile, uses, loose, acked>>
  BY DEF Burn
<1> HIDE DEF t
<1>3. /\ toks' \in [Toks -> TokRec] /\ toks'[t].kind = toks[t].kind /\ toks'[t].of = toks[t].of
      /\ ~toks'[t].live /\ \A s \in Toks : s # t => toks'[s] = toks[s]
  BY <1>1, <1>2, Dead DEF IdentityInv
<1>4. req[r].tok = t
  BY DEF t
<1>5. QED BY <1>1, <1>2, <1>3, <1>4, LettingGo

LEMMA DieKeeps ==
  ASSUME IdentityInv, NEW r \in Reqs, Die(r)
  PROVE  IdentityInv'
<1> DEFINE t == req[r].tok
<1>1. /\ Becomes(r, Idle) /\ loose' = (IF req[r].op = "burn" THEN loose \cup {t} ELSE loose)
      /\ UNCHANGED <<accounts, profile, toks, uses, acked>>
  BY DEF Die
<1>2. RequestOK(r)
  BY DEF IdentityInv, RequestsOK
<1>3. CASE req[r].op \in {"use", "burn"}
  <2>1. t \in Toks
    BY <1>2, <1>3 DEF RequestOK
  <2>2. QED BY <1>1, <2>1, LettingGo, Types DEF IdentityInv
<1>4. CASE req[r].op \notin {"use", "burn"}
  <2>1. t = 0 /\ loose' = loose
    BY <1>1, <1>2, <1>4 DEF RequestOK
  <2>2. QED BY <1>1, <2>1, EndsKeeps
<1>5. QED BY <1>3, <1>4

LEMMA ConsumeKeeps ==
  ASSUME IdentityInv, NEW r \in Reqs, NEW t \in Toks, Consume(r, t)
  PROVE  IdentityInv'
<1> DEFINE e == toks[t].of
           y == Doing("refresh", e)
<1>1. e \in Emails /\ rows[e] = 1 /\ uses[t] = 0 /\ toks[t].kind = "refresh"
  BY DEF Consume, IdentityInv, TokensOK, TokenOK
<1>2. y \in ReqRec /\ y.op = "refresh" /\ y.of = e /\ y.tok = 0
  BY <1>1, DoingFields DEF Ops
<1>3. /\ Becomes(r, y) /\ req[r].tok = 0
      /\ toks' = [toks EXCEPT ![t].live = FALSE]
      /\ uses' = [uses EXCEPT ![t] = IF uses[t] = 0 THEN 1 ELSE 2]
      /\ UNCHANGED <<accounts, profile, loose, acked>>
  BY IdleFields DEF Consume, Used
<1> HIDE DEF y, e
<1>4. req' \in [Reqs -> ReqRec] /\ req'[r] = y /\ \A s \in Reqs : s # r => req'[s] = req[s]
  BY <1>2, <1>3, BecomesOne DEF IdentityInv
<1>5. /\ toks' \in [Toks -> TokRec] /\ toks'[t].kind = "refresh" /\ toks'[t].of = e /\ ~toks'[t].live
      /\ \A s \in Toks : s # t => toks'[s] = toks[s]
  BY <1>1, <1>3, Dead DEF IdentityInv, e
<1>6. uses' \in [Toks -> 0..2] /\ uses'[t] = 1 /\ \A s \in Toks : s # t => uses'[s] = uses[s]
  BY <1>1, <1>3, Types DEF IdentityInv
<1>7. TypeOK'
  BY <1>3, <1>4, <1>5, <1>6 DEF IdentityInv, TypeOK, accounts, Exists, ReqRec, TokRec
<1>8. RequestsOK'
  <2>1. RequestOK(r)'
    BY <1>1, <1>2, <1>3, <1>4 DEF RequestOK, accounts
  <2>2. \A s \in Toks : toks[s].kind \in Links => toks'[s].kind \in Links
    BY <1>1, <1>5 DEF Links
  <2>3. QED BY <1>3, <1>4, <2>1, <2>2, Unmoved DEF IdentityInv, RequestsOK, accounts
<1>9. TokensOK'
  <2> SUFFICES ASSUME NEW s \in Toks PROVE TokenOK(s)'
    BY DEF TokensOK
  <2>1. CASE s = t
    BY <1>1, <1>3, <1>5, <1>6, <2>1 DEF TokenOK, accounts
  <2>2. CASE s # t
    BY <1>3, <1>5, <1>6, <2>2, TokensStay DEF IdentityInv, accounts
  <2>3. QED BY <2>1, <2>2
<1>10. LinksOK'
  <2> SUFFICES ASSUME NEW s \in Toks, toks'[s].kind \in Links, s \notin loose' PROVE LinkOK(s)'
    BY DEF LinksOK
  <2>1. s # t
    BY <1>5 DEF Links
  <2>2. s # 0
    BY DEF Toks
  <2>3. QED BY <1>2, <1>3, <1>5, <1>6, <2>1, <2>2, OtherLink
<1>11. ProfilesOK'
  BY <1>3 DEF IdentityInv, ProfilesOK, accounts
<1>12. QED BY <1>7, <1>8, <1>9, <1>10, <1>11 DEF IdentityInv

\* Cooldowns end and staff disable accounts.
LEMMA AccountKeeps ==
  ASSUME IdentityInv, NEW e \in Emails, Cool(e) \/ SetActive(e)
  PROVE  IdentityInv'
<1>1. /\ {active', verified', usable', recent'} \subseteq SUBSET {x \in Emails : rows[x] > 0}
      /\ UNCHANGED <<rows, profile, toks, req, uses, loose, acked>>
  BY AccountSets DEF Cool, SetActive, IdentityInv, Exists
<1>2. TypeOK'
  BY <1>1 DEF IdentityInv, TypeOK, Exists
<1>3. RequestsOK' /\ TokensOK' /\ ProfilesOK'
  BY <1>1 DEF IdentityInv, RequestsOK, RequestOK, TokensOK, TokenOK, ProfilesOK
<1>4. LinksOK'
  BY <1>1 DEF IdentityInv, LinksOK, LinkOK, Holds
<1>5. QED BY <1>2, <1>3, <1>4 DEF IdentityInv

-----------------------------------------------------------------------------
LEMMA IdentityInit ==
  Init => IdentityInv
<1> SUFFICES ASSUME Init PROVE IdentityInv
  OBVIOUS
<1>1. TypeOK
  BY IdleFields DEF Init, TypeOK, Idle, Ops
<1>2. RequestsOK
  BY IdleFields DEF Init, RequestsOK, RequestOK
<1>3. TokensOK /\ LinksOK
  BY DEF Init, TokensOK, TokenOK, LinksOK, Links
<1>4. ProfilesOK
  BY DEF Init, ProfilesOK
<1>5. QED BY <1>1, <1>2, <1>3, <1>4 DEF IdentityInv

LEMMA IdentityStep ==
  IdentityInv /\ [Next]_vars => IdentityInv'
<1> SUFFICES ASSUME IdentityInv, [Next]_vars PROVE IdentityInv'
  OBVIOUS
<1>1. ASSUME NEW r \in Reqs, Request(r)
      PROVE  IdentityInv'
  <2>1. ASSUME NEW e \in Emails, CreateRead(r, e) \/ ResendRead(r, e) \/ ForgotRead(r, e) \/ Login(r, e)
        PROVE  IdentityInv'
    BY <2>1, CreateReadKeeps, LinkReadKeeps, LoginKeeps
  <2>2. ASSUME NEW t \in Toks, UseRead(r, t) \/ Consume(r, t)
        PROVE  IdentityInv'
    BY <2>2, UseReadKeeps, ConsumeKeeps
  <2>3. QED BY <1>1, <2>1, <2>2, CreateCommitKeeps, LinkKeeps, LinkFailsKeeps, UseCommitKeeps,
               BurnKeeps, RenewKeeps, EditCommitKeeps, DieKeeps, EditReadKeeps DEF Request
<1>2. CASE UNCHANGED vars
  <2>1. TypeOK' /\ ProfilesOK'
    BY <1>2 DEF IdentityInv, TypeOK, ProfilesOK, vars, accounts, Exists
  <2>2. RequestsOK' /\ TokensOK'
    BY <1>2 DEF IdentityInv, RequestsOK, RequestOK, TokensOK, TokenOK, vars, accounts
  <2>3. LinksOK'
    BY <1>2 DEF IdentityInv, LinksOK, LinkOK, Holds, vars, accounts
  <2>4. QED BY <2>1, <2>2, <2>3 DEF IdentityInv
<1>3. QED BY <1>1, <1>2, AccountKeeps, VanishKeeps DEF Next

LEMMA IdentityAlways ==
  Spec => []IdentityInv
  BY IdentityInit, IdentityStep, PTL DEF Spec

\* Every variable of the accounts, their tokens and the requests has its type:
\* the unique address gives one account for every number of registrations at once.
THEOREM TypeOKAlways == Spec => []TypeOK
<1>1. IdentityInv => TypeOK
  BY DEF IdentityInv
<1>2. QED BY <1>1, IdentityAlways, PTL

\* consume_refresh_token, verify_email and reset_password: a refresh token is
\* renewed once; a link works once unless two requests held it together or a
\* death came between its work and its deletion.
THEOREM TokensAreUsedOnceAlways == Spec => []TokensAreUsedOnce
<1>1. IdentityInv => TokensAreUsedOnce
  <2> SUFFICES ASSUME IdentityInv, NEW t \in Toks, uses[t] > 1
               PROVE  toks[t].kind # "refresh" /\ t \in loose
    BY DEF TokensAreUsedOnce
  <2>1. toks[t].kind \in {"none", "verify", "reset", "refresh"}
    BY Types DEF IdentityInv, TokRec
  <2>2. toks[t].kind \in Links
    BY <2>1 DEF IdentityInv, TokensOK, TokenOK, Links
  <2>3. t \in loose
    BY <2>2 DEF IdentityInv, LinksOK, LinkOK
  <2>4. QED BY <2>2, <2>3 DEF Links
<1>2. QED BY <1>1, IdentityAlways, PTL

\* update_profile and its first insert: every edit answered with success is in
\* the profile, for every number of edits at once.
THEOREM AckedEditsKeptAlways == Spec => []AckedEditsKept
<1>1. IdentityInv => AckedEditsKept
  BY DEF IdentityInv, ProfilesOK, AckedEditsKept
<1>2. QED BY <1>1, IdentityAlways, PTL

===============================================================================
