--------------------------- MODULE AccountsProofs ---------------------------
(***************************************************************************)
(* The properties of Accounts, proved for any number of accounts, links,   *)
(* sessions and overlapping requests.                                      *)
(*                                                                         *)
(* The argument is about what a request still knows when it commits.  A    *)
(* request that redeems a link holds the row lock of its account, so the   *)
(* account stays active, the link stays unused and no session is added     *)
(* that its DELETE has not seen; a request that renews a link holds rows   *)
(* that are unused links of its account or gone already.                   *)
(***************************************************************************)
EXTENDS Accounts, TLAPS

USE AccountsAssumption

\* Just the active accounts have a password somebody knows.
ActiveHasPassword == \A u \in Users : password[u] # None <=> state[u] = "active"

\* What any request has read.
Knows(c) ==
    /\ req[c].op # "idle" => req[c].user \in Users
    /\ req[c].op = "login" => req[c].password \in Passwords
    /\ req[c].op \notin {"recover", "revoke"} => req[c].gone = {}

\* A request that redeems a link.
Redeemed(c) ==
    req[c].op \in {"reset", "revoke"} =>
        /\ lock[req[c].user] = c
        /\ state[req[c].user] = "active"
        /\ req[c].token \in ResetTokens
        /\ tokens[req[c].token] = Link(req[c].user)
        /\ \A d \in Requests : req[c].token \notin req[d].gone

\* A request that renews a link.
Renews(c) ==
    req[c].op = "recover" =>
        /\ req[c].gone \subseteq ResetTokens
        /\ \A k \in req[c].gone : tokens[k] \in {Link(req[c].user), NoToken}

\* A request whose DELETE of the sessions is done.
Revokes(c) ==
    req[c].op = "revoke" =>
        /\ req[c].gone \subseteq Sessions
        /\ SessionsOf(req[c].user) \subseteq req[c].gone

Inv ==
    /\ TypeOK
    /\ ActiveHasPassword
    /\ \A c \in Requests : Knows(c) /\ Redeemed(c) /\ Renews(c) /\ Revokes(c)

----------------------------------------------------------------------------

LEMMA RowTypes ==
    /\ Idle \in Request
    /\ \A u \in Users : Link(u) # NoToken
    /\ \A u \in Users : Link(u) \in [user : Users, used : BOOLEAN]
  BY DEF Idle, Request, Link, NoToken

LEMMA InitInv == Init => Inv
  <1>1. Init => TypeOK
    BY RowTypes DEF Init, TypeOK
  <1>2. Init => ActiveHasPassword
    BY DEF Init, ActiveHasPassword
  <1>3. Init => \A c \in Requests : Knows(c) /\ Redeemed(c) /\ Renews(c) /\ Revokes(c)
    BY DEF Init, Knows, Redeemed, Renews, Revokes, Idle
  <1>4. QED
    BY <1>1, <1>2, <1>3 DEF Inv

\* A request that reads an account and holds nothing.
LEMMA ReadInv ==
    ASSUME Inv, NEW c \in Requests, NEW r \in Request,
           r.op \in {"idle", "login", "rename", "delete", "lift"},
           r.op # "idle" => r.user \in Users,
           r.op = "login" => r.password \in Passwords,
           r.gone = {},
           req' = [req EXCEPT ![c] = r],
           UNCHANGED <<account, until, sessions, tokens, lock>>
    PROVE  Inv'
  <1>1. TypeOK'
    BY DEF Inv, TypeOK, account
  <1>2. ActiveHasPassword'
    BY DEF Inv, ActiveHasPassword, account
  <1>3. ASSUME NEW d \in Requests
        PROVE  (Knows(d) /\ Redeemed(d) /\ Renews(d) /\ Revokes(d))'
    <2>1. /\ req'[c] = r
          /\ d # c => req'[d] = req[d]
          /\ Knows(d) /\ Redeemed(d) /\ Renews(d) /\ Revokes(d)
      BY DEF Inv, TypeOK
    <2>2. Knows(d)'
      BY <2>1 DEF Knows
    <2>3. \A e \in Requests : req'[e].gone = {} \/ req'[e].gone = req[e].gone
      BY DEF Inv, TypeOK
    <2>4. Redeemed(d)'
      BY <2>1, <2>3 DEF Redeemed, account
    <2>5. Renews(d)'
      BY <2>1 DEF Renews
    <2>6. Revokes(d)'
      BY <2>1 DEF Revokes, SessionsOf
    <2>7. QED
      BY <2>2, <2>4, <2>5, <2>6
  <1>4. QED
    BY <1>1, <1>2, <1>3 DEF Inv

\* Nobody redeems a link of an account whose row is not locked.
LEMMA NotRedeemed ==
    ASSUME Inv, NEW u \in Users, lock[u] = None, NEW d \in Requests,
           req[d].op \in {"reset", "revoke"}
    PROVE  req[d].user # u
  BY DEF Inv, Redeemed

\* What is left of the requests when one of them ends.
LEMMA EndOf ==
    ASSUME Inv, NEW c \in Requests, req' = [req EXCEPT ![c] = Idle], NEW d \in Requests
    PROVE  /\ req' \in [Requests -> Request]
           /\ d # c => req'[d] = req[d]
           /\ Knows(d)'
           /\ d = c => (Redeemed(d) /\ Renews(d) /\ Revokes(d))'
           /\ \A e \in Requests : req'[e].gone \subseteq req[e].gone
  <1>1. /\ req \in [Requests -> Request]
        /\ Knows(d)
    BY DEF Inv, TypeOK
  <1>2. req' \in [Requests -> Request] /\ req'[c] = Idle /\ (d # c => req'[d] = req[d])
    BY <1>1, RowTypes
  <1>3. Knows(d)'
    BY <1>1, <1>2 DEF Knows, Idle
  <1>4. d = c => (Redeemed(d) /\ Renews(d) /\ Revokes(d))'
    BY <1>2 DEF Redeemed, Renews, Revokes, Idle
  <1>5. \A e \in Requests : req'[e].gone \subseteq req[e].gone
    BY <1>1 DEF Idle
  <1>6. QED
    BY <1>2, <1>3, <1>4, <1>5

----------------------------------------------------------------------------

LEMMA RegisterInv ==
    ASSUME Inv, NEW u \in Users, NEW s \in Sessions, Register(u, s)
    PROVE  Inv'
  <1>1. TypeOK'
    BY DEF Inv, TypeOK, Register, Passwords
  <1>2. ActiveHasPassword'
    BY DEF Inv, TypeOK, ActiveHasPassword, Register
  <1>3. ASSUME NEW d \in Requests
        PROVE  (Knows(d) /\ Redeemed(d) /\ Renews(d) /\ Revokes(d))'
    <2>1. Knows(d) /\ Redeemed(d) /\ Renews(d) /\ Revokes(d)
      BY DEF Inv
    <2>2. Knows(d)' /\ Renews(d)'
      BY <2>1 DEF Knows, Renews, Register
    <2>3. req[d].op \in {"reset", "revoke"} => req[d].user \in Users /\ req[d].user # u
      BY <2>1 DEF Knows, Redeemed, Register
    <2>4. Redeemed(d)'
      BY <2>1, <2>3 DEF Inv, TypeOK, Redeemed, Register
    <2>5. Revokes(d)'
      BY <2>1, <2>3 DEF Inv, TypeOK, Revokes, SessionsOf, Register
    <2>6. QED
      BY <2>2, <2>4, <2>5
  <1>4. QED
    BY <1>1, <1>2, <1>3 DEF Inv

LEMMA CommitLoginInv ==
    ASSUME Inv, NEW c \in Requests, NEW s \in Sessions, CommitLogin(c, s)
    PROVE  Inv'
  <1> DEFINE u == req[c].user
  <1>1. /\ req' = [req EXCEPT ![c] = Idle]
        /\ lock' = lock /\ lock[u] = None
        /\ u \in Users /\ req[c].password \in Passwords
        /\ sessions' = [sessions EXCEPT ![s] = [user |-> u, password |-> req[c].password]]
        /\ UNCHANGED <<account, until, tokens>>
    BY DEF CommitLogin, Commit, Inv, Knows
  <1>2. TypeOK'
    BY <1>1, EndOf DEF Inv, TypeOK, account
  <1>3. ActiveHasPassword'
    BY <1>1 DEF Inv, ActiveHasPassword, account
  <1>4. ASSUME NEW d \in Requests
        PROVE  (Knows(d) /\ Redeemed(d) /\ Renews(d) /\ Revokes(d))'
    <2>1. Knows(d) /\ Redeemed(d) /\ Renews(d) /\ Revokes(d)
      BY DEF Inv
    <2>2. /\ Knows(d)'
          /\ d # c => req'[d] = req[d]
          /\ d = c => (Redeemed(d) /\ Renews(d) /\ Revokes(d))'
          /\ \A e \in Requests : req'[e].gone \subseteq req[e].gone
      BY <1>1, EndOf
    <2>3. CASE d # c
      <3>1. Redeemed(d)'
        BY <1>1, <2>1, <2>2, <2>3 DEF Redeemed, account
      <3>2. Renews(d)'
        BY <1>1, <2>1, <2>2, <2>3 DEF Renews
      <3>3. req[d].op = "revoke" => req[d].user # u
        BY <1>1, NotRedeemed
      <3>4. SessionsOf(req[d].user)' = {t \in Sessions : sessions'[t].user = req[d].user}
        BY <2>2, <2>3 DEF SessionsOf
      <3>5. req[d].op = "revoke" => SessionsOf(req[d].user)' \subseteq SessionsOf(req[d].user)
        BY <1>1, <3>3, <3>4 DEF Inv, TypeOK, SessionsOf
      <3>6. Revokes(d)'
        BY <2>1, <2>2, <2>3, <3>5 DEF Revokes
      <3>7. QED
        BY <2>2, <3>1, <3>2, <3>6
    <2>4. QED
      BY <2>2, <2>3
  <1>5. QED
    BY <1>2, <1>3, <1>4 DEF Inv

\* A DELETE adds no session.
LEMMA WithoutLess ==
    ASSUME TypeOK, NEW gone, sessions' = Without(gone)
    PROVE  /\ sessions' \in [Sessions -> [user : Users, password : Passwords] \cup {NoSession}]
           /\ \A s \in Sessions, u \in Users :
                 sessions'[s].user = u => sessions[s].user = u /\ s \notin gone
  BY DEF TypeOK, Without, NoSession

\* A row that loses sessions does no harm to a request that goes on.
LEMMA FewerSessions ==
    ASSUME Inv, NEW d \in Requests, req'[d] = req[d],
           \A s \in Sessions, u \in Users : sessions'[s].user = u => sessions[s].user = u
    PROVE  Revokes(d)'
  <1>1. SUFFICES ASSUME req[d].op = "revoke"
                 PROVE  Revokes(d)'
    BY DEF Revokes
  <1>2. req[d].user \in Users /\ Revokes(d)
    BY <1>1 DEF Inv, Knows
  <1>3. SessionsOf(req[d].user)' = {s \in Sessions : sessions'[s].user = req[d].user}
    BY DEF SessionsOf
  <1>4. QED
    BY <1>1, <1>2, <1>3 DEF Revokes, SessionsOf

LEMMA LogoutInv ==
    ASSUME Inv, NEW s \in Sessions, Logout(s)
    PROVE  Inv'
  <1>1. /\ sessions' = Without({s})
        /\ UNCHANGED <<account, until, tokens, lock, req>>
    BY DEF Logout
  <1>2. TypeOK'
    BY <1>1, WithoutLess DEF Inv, TypeOK, account
  <1>3. ActiveHasPassword'
    BY <1>1 DEF Inv, ActiveHasPassword, account
  <1>4. ASSUME NEW d \in Requests
        PROVE  (Knows(d) /\ Redeemed(d) /\ Renews(d) /\ Revokes(d))'
    <2>1. Knows(d) /\ Redeemed(d) /\ Renews(d)
      BY DEF Inv
    <2>2. (Knows(d) /\ Redeemed(d) /\ Renews(d))'
      BY <1>1, <2>1 DEF Knows, Redeemed, Renews, account
    <2>3. Revokes(d)'
      BY <1>1, WithoutLess, FewerSessions DEF Inv
    <2>4. QED
      BY <2>2, <2>3
  <1>5. QED
    BY <1>2, <1>3, <1>4 DEF Inv

LEMMA BeginRecoveryInv ==
    ASSUME Inv, NEW c \in Requests, NEW u \in Users, BeginRecovery(c, u)
    PROVE  Inv'
  <1> DEFINE gone == {k \in ResetTokens : tokens[k] = Link(u)}
             r == [Idle EXCEPT !.op = "recover", !.user = u, !.gone = gone]
  <1>1. /\ req' = [req EXCEPT ![c] = r]
        /\ lock[u] = None
        /\ UNCHANGED <<account, until, sessions, tokens, lock>>
    BY DEF BeginRecovery, Begin
  <1>2. /\ r \in Request
        /\ r.op = "recover" /\ r.user = u /\ r.gone = gone
    BY DEF Idle, Request
  <1> HIDE DEF r
  <1>3. TypeOK'
    BY <1>1, <1>2 DEF Inv, TypeOK, account
  <1>4. ActiveHasPassword'
    BY <1>1 DEF Inv, ActiveHasPassword, account
  <1>5. ASSUME NEW d \in Requests
        PROVE  (Knows(d) /\ Redeemed(d) /\ Renews(d) /\ Revokes(d))'
    <2>1. /\ Knows(d) /\ Redeemed(d) /\ Renews(d) /\ Revokes(d)
          /\ req'[c] = r
          /\ \A e \in Requests \ {c} : req'[e] = req[e]
      BY <1>1 DEF Inv, TypeOK
    <2>2. Knows(d)'
      BY <1>2, <2>1 DEF Knows
    <2>3. req[d].op \in {"reset", "revoke"} => req[d].token \notin gone
      <3>1. SUFFICES ASSUME req[d].op \in {"reset", "revoke"}, req[d].token \in gone
                     PROVE  FALSE
        OBVIOUS
      <3>2. tokens[req[d].token] = Link(req[d].user) /\ tokens[req[d].token] = Link(u)
        BY <2>1, <3>1 DEF Redeemed
      <3>3. req[d].user = u
        BY <3>2 DEF Link
      <3>4. QED
        BY <1>1, <3>1, <3>3, NotRedeemed
    <2>4. Redeemed(d)'
      BY <1>1, <1>2, <2>1, <2>3 DEF Redeemed, account
    <2>5. Renews(d)'
      BY <1>1, <1>2, <2>1 DEF Renews
    <2>6. Revokes(d)'
      BY <1>1, <1>2, <2>1 DEF Revokes, SessionsOf
    <2>7. QED
      BY <2>2, <2>4, <2>5, <2>6
  <1>6. QED
    BY <1>3, <1>4, <1>5 DEF Inv

LEMMA CommitRecoveryInv ==
    ASSUME Inv, NEW c \in Requests, NEW k \in ResetTokens, CommitRecovery(c, k)
    PROVE  Inv'
  <1> DEFINE u == req[c].user
  <1>1. /\ req' = [req EXCEPT ![c] = Idle]
        /\ req[c].op = "recover"
        /\ lock' = lock /\ lock[u] = None /\ u \in Users
        /\ tokens[k] = NoToken
        /\ \A d \in Requests : k \notin req[d].gone
        /\ tokens' = [j \in ResetTokens |-> IF j = k THEN Link(u)
                                            ELSE IF j \in req[c].gone THEN NoToken
                                            ELSE tokens[j]]
        /\ UNCHANGED <<account, until, sessions>>
    BY DEF CommitRecovery, Commit, Fresh, Inv, Knows
  <1>2. TypeOK'
    BY <1>1, EndOf, RowTypes DEF Inv, TypeOK, account
  <1>3. ActiveHasPassword'
    BY <1>1 DEF Inv, ActiveHasPassword, account
  <1>4. ASSUME NEW d \in Requests
        PROVE  (Knows(d) /\ Redeemed(d) /\ Renews(d) /\ Revokes(d))'
    <2>1. Knows(d) /\ Redeemed(d) /\ Renews(d) /\ Revokes(d) /\ Renews(c)
      BY DEF Inv
    <2>2. /\ Knows(d)'
          /\ d # c => req'[d] = req[d]
          /\ d = c => (Redeemed(d) /\ Renews(d) /\ Revokes(d))'
          /\ \A e \in Requests : req'[e].gone \subseteq req[e].gone
      BY <1>1, EndOf
    <2>3. CASE d # c
      <3>1. req[d].op \in {"reset", "revoke"} => tokens'[req[d].token] = tokens[req[d].token]
        <4>1. SUFFICES ASSUME req[d].op \in {"reset", "revoke"}
                       PROVE  tokens'[req[d].token] = tokens[req[d].token]
          OBVIOUS
        <4>2. /\ req[d].token \in ResetTokens
              /\ tokens[req[d].token] = Link(req[d].user)
              /\ req[d].user \in Users
              /\ req[d].token \notin req[c].gone
          BY <2>1, <4>1 DEF Redeemed, Knows
        <4>3. req[d].token # k
          BY <1>1, <4>2, RowTypes
        <4>4. QED
          BY <1>1, <4>2, <4>3
      <3>2. Redeemed(d)'
        BY <1>1, <2>1, <2>2, <2>3, <3>1 DEF Redeemed, account
      <3>3. Renews(d)'
        BY <1>1, <2>1, <2>2, <2>3 DEF Renews
      <3>4. Revokes(d)'
        BY <1>1, <2>1, <2>2, <2>3 DEF Revokes, SessionsOf
      <3>5. QED
        BY <2>2, <3>2, <3>3, <3>4
    <2>4. QED
      BY <2>2, <2>3
  <1>5. QED
    BY <1>2, <1>3, <1>4 DEF Inv

LEMMA BeginResetInv ==
    ASSUME Inv, NEW c \in Requests, NEW k \in ResetTokens, NEW u \in Users, BeginReset(c, k, u)
    PROVE  Inv'
  <1> DEFINE r == Redeeming(k, u)
  <1>1. /\ req' = [req EXCEPT ![c] = r]
        /\ lock[u] = None /\ lock' = [lock EXCEPT ![u] = c]
        /\ tokens[k] = Link(u) /\ state[u] = "active"
        /\ \A d \in Requests : k \notin req[d].gone
        /\ UNCHANGED <<account, until, sessions, tokens>>
    BY DEF BeginReset, Begin, Redeems, Fresh
  <1>2. /\ r \in Request
        /\ r.op = "reset" /\ r.user = u /\ r.token = k /\ r.gone = {}
    BY DEF Idle, Request, Redeeming
  <1> HIDE DEF r
  <1>3. TypeOK'
    BY <1>1, <1>2 DEF Inv, TypeOK, account
  <1>4. ActiveHasPassword'
    BY <1>1 DEF Inv, ActiveHasPassword, account
  <1>5. ASSUME NEW d \in Requests
        PROVE  (Knows(d) /\ Redeemed(d) /\ Renews(d) /\ Revokes(d))'
    <2>1. /\ Knows(d) /\ Redeemed(d) /\ Renews(d) /\ Revokes(d)
          /\ req'[c] = r
          /\ \A e \in Requests \ {c} : req'[e] = req[e]
      BY <1>1 DEF Inv, TypeOK
    <2>2. Knows(d)'
      BY <1>2, <2>1 DEF Knows
    <2>3. d # c /\ req[d].op \in {"reset", "revoke"} => lock'[req[d].user] = d
      BY <1>1, <2>1, NotRedeemed DEF Inv, TypeOK, Knows, Redeemed
    <2>4. lock'[u] = c
      BY <1>1 DEF Inv, TypeOK
    <2>5. Redeemed(d)'
      <3>1. CASE d = c
        BY <1>1, <1>2, <2>1, <2>4, <3>1 DEF Redeemed, account
      <3>2. CASE d # c
        BY <1>1, <1>2, <2>1, <2>3, <3>2 DEF Redeemed, account
      <3>3. QED
        BY <3>1, <3>2
    <2>6. Renews(d)'
      BY <1>1, <1>2, <2>1 DEF Renews
    <2>7. Revokes(d)'
      BY <1>1, <1>2, <2>1 DEF Revokes, SessionsOf
    <2>8. QED
      BY <2>2, <2>5, <2>6, <2>7
  <1>6. QED
    BY <1>3, <1>4, <1>5 DEF Inv

LEMMA RevokeInv ==
    ASSUME Inv, NEW c \in Requests, Revoke(c)
    PROVE  Inv'
  <1> DEFINE taken == SessionsOf(req[c].user)
             r == [req[c] EXCEPT !.op = "revoke", !.gone = taken]
  <1>1. /\ req[c].op = "reset"
        /\ req' = [req EXCEPT ![c] = r]
        /\ UNCHANGED <<account, until, sessions, tokens, lock>>
    BY DEF Revoke
  <1>2. /\ taken \subseteq Sessions
        /\ r \in Request
        /\ r.op = "revoke" /\ r.user = req[c].user /\ r.token = req[c].token /\ r.gone = taken
    <2>1. taken \in SUBSET (Sessions \cup ResetTokens) /\ taken \subseteq Sessions
      BY DEF SessionsOf
    <2>2. req[c] \in Request
      BY DEF Inv, TypeOK
    <2> HIDE DEF taken
    <2>3. QED
      BY <2>1, <2>2 DEF Request
  <1> HIDE DEF r
  <1>3. TypeOK'
    BY <1>1, <1>2 DEF Inv, TypeOK, account
  <1>4. ActiveHasPassword'
    BY <1>1 DEF Inv, ActiveHasPassword, account
  <1>5. ASSUME NEW d \in Requests
        PROVE  (Knows(d) /\ Redeemed(d) /\ Renews(d) /\ Revokes(d))'
    <2>1. /\ Knows(d) /\ Redeemed(d) /\ Renews(d) /\ Revokes(d)
          /\ req'[c] = r
          /\ \A e \in Requests \ {c} : req'[e] = req[e]
      BY <1>1 DEF Inv, TypeOK
    <2>2. Knows(d)'
      BY <1>1, <1>2, <2>1 DEF Knows
    <2>3. req[d].op \in {"reset", "revoke"} => req[d].token \notin taken
      BY <1>2, <2>1 DEF Redeemed
    <2>4. Redeemed(d)'
      BY <1>1, <1>2, <2>1, <2>3 DEF Redeemed, account
    <2>5. Renews(d)'
      BY <1>1, <1>2, <2>1 DEF Renews
    <2>6. Revokes(d)'
      <3>1. CASE d = c
        <4>1. req'[d].gone = taken /\ req'[d].user = req[d].user /\ taken \subseteq Sessions
          BY <1>2, <2>1, <3>1
        <4>2. QED
          BY <1>1, <3>1, <4>1 DEF Revokes, SessionsOf
      <3>2. CASE d # c
        BY <1>1, <2>1, <3>2 DEF Revokes, SessionsOf
      <3>3. QED
        BY <3>1, <3>2
    <2>7. QED
      BY <2>2, <2>4, <2>5, <2>6
  <1>6. QED
    BY <1>3, <1>4, <1>5 DEF Inv

\* What a reset commits.
LEMMA ResetCommits ==
    ASSUME Inv, NEW c \in Requests, CommitReset(c)
    PROVE  /\ req[c].user \in Users
           /\ state[req[c].user] = "active"
           /\ password[req[c].user] \in Passwords \ {MaxPasswords}
           /\ password' = [password EXCEPT ![req[c].user] = @ + 1]
           /\ req[c].token \in ResetTokens
           /\ tokens[req[c].token] = Link(req[c].user)
           /\ tokens' = [tokens EXCEPT ![req[c].token] = [Link(req[c].user) EXCEPT !.used = TRUE]]
           /\ sessions' = Without(req[c].gone)
           /\ SessionsOf(req[c].user) \subseteq req[c].gone
           /\ lock[req[c].user] = c
           /\ lock' = [lock EXCEPT ![req[c].user] = None]
           /\ req' = [req EXCEPT ![c] = Idle]
           /\ UNCHANGED <<state, name, until>>
  <1> DEFINE u == req[c].user
  <1>1. /\ req[c].op = "revoke"
        /\ password[u] # MaxPasswords
        /\ password' = [password EXCEPT ![u] = IF @ = None THEN 1 ELSE @ + 1]
        /\ tokens' = [tokens EXCEPT ![req[c].token] = [@ EXCEPT !.used = TRUE]]
        /\ sessions' = Without(req[c].gone)
        /\ lock' = [lock EXCEPT ![u] = None]
        /\ req' = [req EXCEPT ![c] = Idle]
        /\ UNCHANGED <<state, name, until>>
    BY DEF CommitReset
  <1>2. Knows(c) /\ Redeemed(c) /\ Revokes(c)
    BY DEF Inv
  <1>3. /\ u \in Users
        /\ state[u] = "active"
        /\ req[c].token \in ResetTokens
        /\ tokens[req[c].token] = Link(u)
        /\ lock[u] = c
        /\ SessionsOf(u) \subseteq req[c].gone
    BY <1>1, <1>2 DEF Knows, Redeemed, Revokes
  <1>4. password[u] # None /\ password[u] \in Passwords
    BY <1>3 DEF Inv, TypeOK, ActiveHasPassword
  <1>5. password' = [password EXCEPT ![u] = @ + 1]
    BY <1>1, <1>3, <1>4
  <1>6. tokens' = [tokens EXCEPT ![req[c].token] = [Link(u) EXCEPT !.used = TRUE]]
    BY <1>1, <1>3
  <1>7. QED
    BY <1>1, <1>3, <1>4, <1>5, <1>6

LEMMA CommitResetInv ==
    ASSUME Inv, NEW c \in Requests, CommitReset(c)
    PROVE  Inv'
  <1> DEFINE u == req[c].user
             k == req[c].token
  <1>1. /\ u \in Users
        /\ state[u] = "active"
        /\ password[u] \in Passwords \ {MaxPasswords}
        /\ password' = [password EXCEPT ![u] = @ + 1]
        /\ k \in ResetTokens
        /\ tokens[k] = Link(u)
        /\ tokens' = [tokens EXCEPT ![k] = [Link(u) EXCEPT !.used = TRUE]]
        /\ sessions' = Without(req[c].gone)
        /\ lock[u] = c
        /\ lock' = [lock EXCEPT ![u] = None]
        /\ req' = [req EXCEPT ![c] = Idle]
        /\ UNCHANGED <<state, name, until>>
    BY ResetCommits
  <1>2. password[u] + 1 \in Passwords /\ password[u] + 1 # None
    BY <1>1 DEF Passwords
  <1>3. [Link(u) EXCEPT !.used = TRUE] \in [user : Users, used : BOOLEAN]
    BY <1>1 DEF Link
  <1>4. TypeOK'
    BY <1>1, <1>2, <1>3, WithoutLess, EndOf DEF Inv, TypeOK
  <1>5. ActiveHasPassword'
    BY <1>1, <1>2 DEF Inv, TypeOK, ActiveHasPassword
  <1>6. ASSUME NEW d \in Requests
        PROVE  (Knows(d) /\ Redeemed(d) /\ Renews(d) /\ Revokes(d))'
    <2>1. Knows(d) /\ Redeemed(d) /\ Renews(d) /\ Revokes(d)
      BY DEF Inv
    <2>2. /\ Knows(d)'
          /\ d # c => req'[d] = req[d]
          /\ d = c => (Redeemed(d) /\ Renews(d) /\ Revokes(d))'
          /\ \A e \in Requests : req'[e].gone \subseteq req[e].gone
      BY <1>1, EndOf
    <2>3. CASE d # c
      <3>1. ASSUME req[d].op \in {"reset", "revoke"}
            PROVE  /\ req[d].user \in Users \ {u}
                   /\ req[d].token \in ResetTokens \ {k}
        <4>1. /\ lock[req[d].user] = d
              /\ req[d].user \in Users
              /\ req[d].token \in ResetTokens
              /\ tokens[req[d].token] = Link(req[d].user)
          BY <2>1, <3>1 DEF Redeemed, Knows
        <4>2. req[d].user # u
          BY <1>1, <2>3, <4>1
        <4>3. Link(req[d].user) # Link(u)
          BY <4>2 DEF Link
        <4>4. QED
          BY <1>1, <4>1, <4>2, <4>3
      <3>2. Redeemed(d)'
        BY <1>1, <2>1, <2>2, <2>3, <3>1 DEF Redeemed, Inv, TypeOK
      <3>3. \A j \in ResetTokens \ {k} : tokens'[j] = tokens[j]
        BY <1>1 DEF Inv, TypeOK
      <3>4. Redeemed(c) /\ req[c].op = "revoke"
        BY DEF Inv, CommitReset
      <3>5. k \notin req[d].gone
        BY <3>4 DEF Redeemed
      <3>6. Renews(d)'
        BY <2>1, <2>2, <2>3, <3>3, <3>5 DEF Renews
      <3>7. Revokes(d)'
        BY <1>1, <2>2, <2>3, WithoutLess, FewerSessions DEF Inv
      <3>8. QED
        BY <2>2, <3>2, <3>6, <3>7
    <2>4. QED
      BY <2>2, <2>3
  <1>7. QED
    BY <1>4, <1>5, <1>6 DEF Inv

\* A commit that leaves the links alone, of a request that holds no lock.
LEMMA CommitInv ==
    ASSUME Inv, NEW c \in Requests, req[c].user \in Users, lock[req[c].user] = None,
           req' = [req EXCEPT ![c] = Idle], lock' = lock, tokens' = tokens,
           TypeOK', ActiveHasPassword',
           \A u \in Users \ {req[c].user} : state'[u] = state[u],
           \A s \in Sessions, u \in Users : sessions'[s].user = u => sessions[s].user = u
    PROVE  Inv'
  <1>1. ASSUME NEW d \in Requests
        PROVE  (Knows(d) /\ Redeemed(d) /\ Renews(d) /\ Revokes(d))'
    <2>1. Knows(d) /\ Redeemed(d) /\ Renews(d)
      BY DEF Inv
    <2>2. /\ Knows(d)'
          /\ d # c => req'[d] = req[d]
          /\ d = c => (Redeemed(d) /\ Renews(d) /\ Revokes(d))'
          /\ \A e \in Requests : req'[e].gone \subseteq req[e].gone
      BY EndOf
    <2>3. CASE d # c
      <3>1. req[d].op \in {"reset", "revoke"} =>
                req[d].user \in Users \ {req[c].user}
        BY <2>1, NotRedeemed DEF Knows
      <3>2. Redeemed(d)'
        BY <2>1, <2>2, <2>3, <3>1 DEF Redeemed
      <3>3. Renews(d)'
        BY <2>1, <2>2, <2>3 DEF Renews
      <3>4. Revokes(d)'
        BY <2>2, <2>3, FewerSessions
      <3>5. QED
        BY <2>2, <3>2, <3>3, <3>4
    <2>4. QED
      BY <2>2, <2>3
  <1>2. QED
    BY <1>1 DEF Inv

LEMMA CommitRenameInv ==
    ASSUME Inv, NEW c \in Requests, CommitRename(c)
    PROVE  Inv'
  <1>1. /\ req' = [req EXCEPT ![c] = Idle]
        /\ req[c].user \in Users /\ lock[req[c].user] = None /\ lock' = lock
        /\ name' = [name EXCEPT ![req[c].user] = "chosen"]
        /\ UNCHANGED <<state, password, until, sessions, tokens>>
    BY DEF CommitRename, Commit, Inv, Knows
  <1>2. TypeOK'
    BY <1>1, EndOf DEF Inv, TypeOK
  <1>3. ActiveHasPassword'
    BY <1>1 DEF Inv, ActiveHasPassword
  <1>4. QED
    BY <1>1, <1>2, <1>3, CommitInv

LEMMA CommitDeleteInv ==
    ASSUME Inv, NEW c \in Requests, CommitDelete(c)
    PROVE  Inv'
  <1> DEFINE u == req[c].user
  <1>1. /\ req' = [req EXCEPT ![c] = Idle]
        /\ u \in Users /\ lock[u] = None /\ lock' = lock
        /\ state' = [state EXCEPT ![u] = "deleted"]
        /\ password' = [password EXCEPT ![u] = None]
        /\ name' = [name EXCEPT ![u] = "pseudonym"]
        /\ sessions' = Without(SessionsOf(u))
        /\ UNCHANGED <<until, tokens>>
    BY DEF CommitDelete, Commit, Inv, Knows
  <1>2. /\ sessions' \in [Sessions -> [user : Users, password : Passwords] \cup {NoSession}]
        /\ \A s \in Sessions, v \in Users : sessions'[s].user = v => sessions[s].user = v
    BY <1>1, WithoutLess DEF Inv
  <1>3. TypeOK'
    BY <1>1, <1>2, EndOf DEF Inv, TypeOK
  <1>4. ActiveHasPassword'
    BY <1>1 DEF Inv, TypeOK, ActiveHasPassword
  <1>5. \A v \in Users \ {u} : state'[v] = state[v]
    BY <1>1 DEF Inv, TypeOK
  <1>6. QED
    BY <1>1, <1>2, <1>3, <1>4, <1>5, CommitInv

\* Suspending touches nothing a request in flight relies on.
LEMMA SuspensionInv ==
    ASSUME Inv, UNCHANGED <<account, tokens, lock, req>>,
           TypeOK',
           \A s \in Sessions, u \in Users : sessions'[s].user = u => sessions[s].user = u
    PROVE  Inv'
  <1>1. ActiveHasPassword'
    BY DEF Inv, ActiveHasPassword, account
  <1>2. ASSUME NEW d \in Requests
        PROVE  (Knows(d) /\ Redeemed(d) /\ Renews(d) /\ Revokes(d))'
    <2>1. Knows(d) /\ Redeemed(d) /\ Renews(d)
      BY DEF Inv
    <2>2. Knows(d)' /\ Redeemed(d)' /\ Renews(d)'
      BY <2>1 DEF Knows, Redeemed, Renews, account
    <2>3. Revokes(d)'
      BY FewerSessions
    <2>4. QED
      BY <2>2, <2>3
  <1>3. QED
    BY <1>1, <1>2 DEF Inv

LEMMA ModeratorInv ==
    ASSUME Inv, NEW u \in Users, NEW end \in {"future", until[u]},
           Suspend(u, end) \/ SuspensionEnds(u) \/ Lift(u)
    PROVE  Inv'
  <1>1. /\ \E t \in {"none", "future", "past"} : until' = [until EXCEPT ![u] = t]
        /\ sessions' \in {sessions, Without(SessionsOf(u))}
        /\ UNCHANGED <<account, tokens, lock, req>>
    BY DEF Suspend, SuspensionEnds, Lift, Inv, TypeOK
  <1>2. /\ sessions' \in [Sessions -> [user : Users, password : Passwords] \cup {NoSession}]
        /\ \A s \in Sessions, v \in Users : sessions'[s].user = v => sessions[s].user = v
    BY <1>1, WithoutLess DEF Inv, TypeOK
  <1>3. TypeOK'
    BY <1>1, <1>2 DEF Inv, TypeOK, account
  <1>4. QED
    BY <1>1, <1>2, <1>3, SuspensionInv

LEMMA AbortInv ==
    ASSUME Inv, NEW c \in Requests, Abort(c)
    PROVE  Inv'
  <1>1. /\ req' = [req EXCEPT ![c] = Idle]
        /\ lock' = [u \in Users |-> IF lock[u] = c THEN None ELSE lock[u]]
        /\ UNCHANGED <<account, until, sessions, tokens>>
    BY DEF Abort
  <1>2. TypeOK'
    BY <1>1, EndOf DEF Inv, TypeOK, account
  <1>3. ActiveHasPassword'
    BY <1>1 DEF Inv, ActiveHasPassword, account
  <1>4. ASSUME NEW d \in Requests
        PROVE  (Knows(d) /\ Redeemed(d) /\ Renews(d) /\ Revokes(d))'
    <2>1. Knows(d) /\ Redeemed(d) /\ Renews(d) /\ Revokes(d)
      BY DEF Inv
    <2>2. /\ Knows(d)'
          /\ d # c => req'[d] = req[d]
          /\ d = c => (Redeemed(d) /\ Renews(d) /\ Revokes(d))'
          /\ \A e \in Requests : req'[e].gone \subseteq req[e].gone
      BY <1>1, EndOf
    <2>3. CASE d # c
      <3>1. req[d].op \in {"reset", "revoke"} => lock'[req[d].user] = d
        BY <1>1, <2>1, <2>3 DEF Redeemed, Knows
      <3>2. Redeemed(d)'
        BY <1>1, <2>1, <2>2, <2>3, <3>1 DEF Redeemed, account
      <3>3. Renews(d)'
        BY <1>1, <2>1, <2>2, <2>3 DEF Renews
      <3>4. Revokes(d)'
        BY <1>1, <2>2, <2>3, FewerSessions
      <3>5. QED
        BY <2>2, <3>2, <3>3, <3>4
    <2>4. QED
      BY <2>2, <2>3
  <1>5. QED
    BY <1>2, <1>3, <1>4 DEF Inv

\* The three operations that read without a lock.
LEMMA BeginInv ==
    ASSUME Inv, NEW c \in Requests
    PROVE  /\ \A u \in Users : BeginLogin(c, u) => Inv'
           /\ \A s \in Sessions : BeginRename(c, s) \/ BeginDelete(c, s) => Inv'
  <1>1. ASSUME NEW u \in Users, BeginLogin(c, u)
        PROVE  Inv'
    <2> DEFINE r == [Idle EXCEPT !.op = "login", !.user = u, !.password = password[u]]
    <2>1. /\ req' = [req EXCEPT ![c] = r]
          /\ state[u] = "active"
          /\ UNCHANGED <<account, until, sessions, tokens, lock>>
      BY <1>1 DEF BeginLogin, Begin
    <2>2. password[u] \in Passwords
      BY <2>1 DEF Inv, TypeOK, ActiveHasPassword
    <2>3. r \in Request /\ r.op = "login" /\ r.user = u /\ r.password = password[u] /\ r.gone = {}
      BY <2>2 DEF Idle, Request
    <2> HIDE DEF r
    <2>4. QED
      BY <2>1, <2>2, <2>3, ReadInv
  <1>2. ASSUME NEW op \in {"rename", "delete"}, NEW v \in Users,
               req' = [req EXCEPT ![c] = [Idle EXCEPT !.op = op, !.user = v]],
               UNCHANGED <<account, until, sessions, tokens, lock>>
        PROVE  Inv'
    <2> DEFINE r == [Idle EXCEPT !.op = op, !.user = v]
    <2>1. r \in Request /\ r.op = op /\ r.user = v /\ r.gone = {}
      BY DEF Idle, Request
    <2>2. req' = [req EXCEPT ![c] = r]
      BY <1>2
    <2> HIDE DEF r
    <2>3. QED
      BY <1>2, <2>1, <2>2, ReadInv
  <1>3. ASSUME NEW s \in Sessions, BeginRename(c, s)
        PROVE  Inv'
    BY <1>2, <1>3 DEF BeginRename, BeginAs, Begin
  <1>4. ASSUME NEW s \in Sessions, BeginDelete(c, s)
        PROVE  Inv'
    BY <1>2, <1>4 DEF BeginDelete, BeginAs, Begin
  <1>5. QED
    BY <1>1, <1>3, <1>4

----------------------------------------------------------------------------

LEMMA NextInv == Inv /\ [Next]_vars => Inv'
  <1>1. SUFFICES ASSUME Inv, [Next]_vars
                 PROVE  Inv'
    OBVIOUS
  <1>2. CASE \E u \in Users, s \in Sessions : Register(u, s)
    BY <1>1, <1>2, RegisterInv
  <1>3. CASE \E s \in Sessions : Logout(s)
    BY <1>1, <1>3, LogoutInv
  <1>4. CASE ModeratorStep
    BY <1>1, <1>4, ModeratorInv DEF ModeratorStep
  <1>5. ASSUME NEW c \in Requests, NEW u \in Users,
               BeginLogin(c, u) \/ BeginRecovery(c, u)
        PROVE  Inv'
    BY <1>1, <1>5, BeginInv, BeginRecoveryInv
  <1>6. ASSUME NEW c \in Requests, NEW s \in Sessions,
               CommitLogin(c, s) \/ BeginRename(c, s) \/ BeginDelete(c, s)
        PROVE  Inv'
    BY <1>1, <1>6, BeginInv, CommitLoginInv
  <1>7. ASSUME NEW c \in Requests, NEW k \in ResetTokens,
               CommitRecovery(c, k) \/ \E u \in Users : BeginReset(c, k, u)
        PROVE  Inv'
    BY <1>1, <1>7, CommitRecoveryInv, BeginResetInv
  <1>8. ASSUME NEW c \in Requests,
               \/ Revoke(c) \/ CommitReset(c)
               \/ CommitRename(c) \/ CommitDelete(c)
               \/ Abort(c)
        PROVE  Inv'
    BY <1>1, <1>8, RevokeInv, CommitResetInv, CommitRenameInv, CommitDeleteInv,
       AbortInv
  <1>9. CASE UNCHANGED vars
    <2>1. UNCHANGED <<account, until, sessions, tokens, lock, req>>
      BY <1>9 DEF vars
    <2>2. TypeOK' /\ ActiveHasPassword'
      BY <1>1, <2>1 DEF Inv, TypeOK, ActiveHasPassword, 
                        account
    <2>3. \A c \in Requests : (Knows(c) /\ Redeemed(c) /\ Renews(c) /\ Revokes(c))'
      BY <1>1, <2>1 DEF Inv, Knows, Redeemed, Renews, Revokes, SessionsOf, account
    <2>4. QED
      BY <2>2, <2>3 DEF Inv
  <1>10. QED
    BY <1>1, <1>2, <1>3, <1>4, <1>5, <1>6, <1>7, <1>8, <1>9 DEF Next, UserStep

\* The strengthening is an invariant of every instance.
THEOREM AccountsInvariant == Spec => []Inv
  <1>1. Init => Inv
    BY InitInv
  <1>2. Inv /\ [Next]_vars => Inv'
    BY NextInv
  <1>3. QED
    BY <1>1, <1>2, PTL DEF Spec

\* The types of the rows and of what requests have read.
THEOREM AccountTypes == Spec => []TypeOK
  <1>1. Inv => TypeOK
    BY DEF Inv
  <1>2. QED
    BY <1>1, AccountsInvariant, PTL

\* No reset gives a deleted account (delete_my_account) a password.
THEOREM ClosedForGood == Spec => []DeletedIsClosed
  <1>1. Inv => DeletedIsClosed
    BY DEF Inv, ActiveHasPassword, DeletedIsClosed
  <1>2. QED
    BY <1>1, AccountsInvariant, PTL

\* Who changes the password of an account that has one.
LEMMA PasswordChanges ==
    ASSUME Inv, [Next]_vars, NEW u \in Users, password[u] # None, password'[u] # password[u]
    PROVE  \E c \in Requests :
              /\ req[c].user = u
              /\ \/ CommitReset(c)
                 \/ CommitDelete(c)
  <1>1. CASE \E v \in Users, s \in Sessions : Register(v, s)
    BY <1>1 DEF Inv, TypeOK, ActiveHasPassword, Register
  <1>2. CASE \E s \in Sessions : Logout(s)
    BY <1>2 DEF Logout, account
  <1>3. CASE ModeratorStep
    BY <1>3 DEF ModeratorStep, Suspend, SuspensionEnds, Lift, account
  <1>4. ASSUME NEW c \in Requests, NEW v \in Users,
               BeginLogin(c, v) \/ BeginRecovery(c, v)
        PROVE  FALSE
    BY <1>4 DEF BeginLogin, BeginRecovery, account
  <1>5. ASSUME NEW c \in Requests, NEW s \in Sessions,
               CommitLogin(c, s) \/ BeginRename(c, s) \/ BeginDelete(c, s)
        PROVE  FALSE
    BY <1>5 DEF CommitLogin, BeginRename, BeginDelete, BeginAs, account
  <1>6. ASSUME NEW c \in Requests, NEW k \in ResetTokens,
               CommitRecovery(c, k) \/ \E v \in Users : BeginReset(c, k, v)
        PROVE  FALSE
    BY <1>6 DEF CommitRecovery, BeginReset, account
  <1>7. ASSUME NEW c \in Requests, Revoke(c) \/ CommitRename(c) \/ Abort(c)
        PROVE  FALSE
    BY <1>7 DEF Revoke, CommitRename, Abort, account
  <1>8. ASSUME NEW c \in Requests, CommitReset(c)
        PROVE  req[c].user = u
    <2>1. password' = [password EXCEPT ![req[c].user] = @ + 1]
      BY <1>8, ResetCommits
    <2>2. QED
      BY <2>1 DEF Inv, TypeOK
  <1>9. ASSUME NEW c \in Requests, CommitDelete(c)
        PROVE  req[c].user = u
    BY <1>9 DEF Inv, TypeOK, CommitDelete
  <1>10. CASE UNCHANGED vars
    BY <1>10 DEF vars, account
  <1>11. QED
    BY <1>1, <1>2, <1>3, <1>4, <1>5, <1>6, <1>7, <1>8, <1>9, <1>10 DEF Next, UserStep

\* The rows a reset or a deletion takes are all the account has.
LEMMA Revoked ==
    ASSUME Inv, [Next]_vars, NEW u \in Users, password[u] # None, password'[u] # password[u]
    PROVE  \A s \in Sessions : sessions'[s].user # u
  <1>1. SUFFICES ASSUME NEW s \in Sessions
                 PROVE  sessions'[s].user # u
    OBVIOUS
  <1>2. PICK c \in Requests : req[c].user = u /\ (CommitReset(c) \/ CommitDelete(c))
    BY PasswordChanges
  <1>3. PICK gone : sessions' = Without(gone) /\ SessionsOf(u) \subseteq gone
    <2>1. CASE CommitReset(c)
      BY <1>2, <2>1, ResetCommits
    <2>2. CASE CommitDelete(c)
      BY <1>2, <2>2 DEF CommitDelete
    <2>3. QED
      BY <1>2, <2>1, <2>2
  <1>4. sessions'[s].user = u => s \in SessionsOf(u) /\ s \notin gone
    BY <1>3, WithoutLess DEF Inv, SessionsOf
  <1>5. QED
    BY <1>3, <1>4

\* No session survives the reset or the deletion that replaces a password.
THEOREM ResetsRevoke == Spec => NewPasswordRevokes
  <1>1. Inv /\ [Next]_vars =>
           [\A u \in Users :
               password[u] # None /\ password'[u] # password[u] =>
                   \A s \in Sessions : sessions'[s].user # u]_vars
    BY Revoked
  <1>2. QED
    BY <1>1, AccountsInvariant, PTL DEF Spec, NewPasswordRevokes

\* A link sets one password and stays used.
THEOREM LinksWorkOnce == Spec => LinksAreSingleUse
  <1>1. ASSUME Inv, [Next]_vars, NEW u \in Users,
               password[u] # None, password'[u] \notin {None, password[u]}
        PROVE  \E k \in ResetTokens :
                   tokens[k] = Link(u) /\ tokens'[k] = [Link(u) EXCEPT !.used = TRUE]
    <2>1. PICK c \in Requests : req[c].user = u /\ (CommitReset(c) \/ CommitDelete(c))
      BY <1>1, PasswordChanges
    <2>2. ~ CommitDelete(c)
      BY <1>1, <2>1 DEF CommitDelete, Inv, TypeOK
    <2>3. CommitReset(c)
      BY <2>1, <2>2
    <2>4. /\ req[c].token \in ResetTokens
          /\ tokens[req[c].token] = Link(u)
          /\ tokens' = [tokens EXCEPT ![req[c].token] = [Link(u) EXCEPT !.used = TRUE]]
      BY <1>1, <2>1, <2>3, ResetCommits
    <2>5. tokens'[req[c].token] = [Link(u) EXCEPT !.used = TRUE]
      BY <1>1, <2>4 DEF Inv, TypeOK
    <2>6. QED
      BY <2>4, <2>5
  <1>2. ASSUME Inv, [Next]_vars, NEW k \in ResetTokens, tokens[k].used
        PROVE  tokens'[k] = tokens[k]
    <2>1. tokens[k] # NoToken /\ \A u : tokens[k] # Link(u)
      BY <1>2 DEF NoToken, Link
    <2>2. CASE tokens' = tokens
      BY <2>2
    <2>3. ASSUME NEW c \in Requests, CommitReset(c)
          PROVE  tokens'[k] = tokens[k]
      <3>1. /\ tokens[req[c].token] = Link(req[c].user)
            /\ tokens' = [tokens EXCEPT ![req[c].token] = [Link(req[c].user) EXCEPT !.used = TRUE]]
        BY <1>2, <2>3, ResetCommits
      <3>2. k # req[c].token
        BY <2>1, <3>1
      <3>3. QED
        BY <1>2, <3>1, <3>2 DEF Inv, TypeOK
    <2>4. ASSUME NEW c \in Requests, NEW j \in ResetTokens, CommitRecovery(c, j)
          PROVE  tokens'[k] = tokens[k]
      <3>1. Renews(c) /\ req[c].op = "recover"
        BY <1>2, <2>4 DEF Inv, CommitRecovery, Commit
      <3>2. k # j /\ k \notin req[c].gone
        BY <2>1, <2>4, <3>1 DEF Renews, CommitRecovery
      <3>3. QED
        BY <2>4, <3>2 DEF CommitRecovery
    <2>5. QED
      BY <1>2, <2>2, <2>3, <2>4
      DEF Next, UserStep, ModeratorStep, Register, Logout, Suspend, SuspensionEnds, Lift,
          BeginLogin, BeginRecovery, CommitLogin, BeginRename, BeginDelete, BeginAs, BeginReset, Revoke,
          CommitRename, CommitDelete, Abort, vars
  <1>3. Inv /\ [Next]_vars =>
           [/\ \A u \in Users :
                  password[u] # None /\ password'[u] \notin {None, password[u]} =>
                      \E k \in ResetTokens :
                          tokens[k] = Link(u) /\ tokens'[k] = [Link(u) EXCEPT !.used = TRUE]
            /\ \A k \in ResetTokens : tokens[k].used => tokens'[k] = tokens[k]]_vars
    BY <1>1, <1>2
  <1>4. QED
    BY <1>3, AccountsInvariant, PTL DEF Spec, LinksAreSingleUse

----------------------------------------------------------------------------
(* What a lock in login would give *)

\* Every open session was opened with the password of its account.
SessionsMatch ==
    \A s \in Sessions, u \in Users : sessions[s].user = u => sessions[s].password = password[u]

\* An account nobody knows a password of has no session then.
LEMMA MatchingIsActive ==
    ASSUME TypeOK, SessionsMatch, NEW s \in Sessions, NEW u \in Users, sessions[s].user = u
    PROVE  password[u] \in Passwords
  <1>1. sessions[s] \in [user : Users, password : Passwords]
    BY DEF TypeOK, NoSession
  <1>2. QED
    BY <1>1 DEF SessionsMatch

\* Where an open session comes from.
LEMMA SessionSteps ==
    ASSUME Inv, [Next]_vars, NEW s \in Sessions, NEW u \in Users, sessions'[s].user = u
    PROVE  \/ sessions[s] = sessions'[s]
           \/ /\ Register(u, s)
              /\ sessions'[s].password = 1
           \/ \E c \in Requests : /\ CommitLogin(c, s)
                                  /\ req[c].user = u
                                  /\ sessions'[s].password = req[c].password
  <1>a. sessions \in [Sessions -> [user : Users, password : Passwords] \cup {NoSession}]
    BY DEF Inv, TypeOK
  <1>b. NoSession.user # u
    BY DEF NoSession
  <1>c. ASSUME NEW gone, sessions' = Without(gone)
        PROVE  sessions[s] = sessions'[s]
    BY <1>b, <1>c DEF Without
  <1>1. CASE \E v \in Users, t \in Sessions : Register(v, t)
    <2>1. PICK v \in Users, t \in Sessions : Register(v, t)
      BY <1>1
    <2>2. sessions' = [sessions EXCEPT ![t] = [user |-> v, password |-> 1]]
      BY <2>1 DEF Register
    <2>3. CASE t = s
      <3>1. sessions'[s] = [user |-> v, password |-> 1]
        BY <1>a, <2>2, <2>3
      <3>2. QED
        BY <2>1, <2>3, <3>1
    <2>4. CASE t # s
      BY <1>a, <2>2, <2>4
    <2>5. QED
      BY <2>3, <2>4
  <1>2. CASE \E c \in Requests, t \in Sessions : CommitLogin(c, t)
    <2>1. PICK c \in Requests, t \in Sessions : CommitLogin(c, t)
      BY <1>2
    <2>2. sessions' = [sessions EXCEPT ![t] = [user |-> req[c].user, password |-> req[c].password]]
      BY <2>1 DEF CommitLogin
    <2>3. CASE t = s
      <3>1. sessions'[s] = [user |-> req[c].user, password |-> req[c].password]
        BY <1>a, <2>2, <2>3
      <3>2. QED
        BY <2>1, <2>3, <3>1
    <2>4. CASE t # s
      BY <1>a, <2>2, <2>4
    <2>5. QED
      BY <2>3, <2>4
  <1>3. CASE \/ \E t \in Sessions : Logout(t)
             \/ \E v \in Users : \E end \in {"future", until[v]} : Suspend(v, end)
             \/ \E c \in Requests : CommitReset(c) \/ CommitDelete(c)
    <2>1. \E gone : sessions' = Without(gone)
      BY <1>3 DEF Logout, Suspend, CommitReset, CommitDelete
    <2>2. QED
      BY <1>c, <2>1
  <1>4. CASE UNCHANGED sessions
    BY <1>4
  <1>5. QED
    BY <1>1, <1>2, <1>3, <1>4
    DEF Next, UserStep, ModeratorStep, SuspensionEnds, Lift, BeginLogin, BeginRecovery,
        BeginRename, BeginDelete, BeginAs, CommitRecovery, BeginReset, Revoke, CommitRename,
        Abort, vars

LEMMA SessionsMatchStep ==
    ASSUME Inv, [Next]_vars, FreshLogins, SessionsMatch
    PROVE  SessionsMatch'
  <1>1. SUFFICES ASSUME NEW s \in Sessions, NEW u \in Users, sessions'[s].user = u
                 PROVE  sessions'[s].password = password'[u]
    BY DEF SessionsMatch
  <1>2. CASE sessions[s] = sessions'[s]
    <2>1. password[u] \in Passwords /\ sessions[s].password = password[u]
      BY <1>1, <1>2, MatchingIsActive DEF Inv, SessionsMatch
    <2>2. password[u] # None
      BY <2>1 DEF Passwords
    <2>3. password'[u] = password[u]
      BY <1>1, <2>2, Revoked
    <2>4. QED
      BY <1>2, <2>1, <2>3
  <1>3. CASE Register(u, s) /\ sessions'[s].password = 1
    BY <1>3 DEF Register, Inv, TypeOK
  <1>4. ASSUME NEW c \in Requests, CommitLogin(c, s), req[c].user = u,
               sessions'[s].password = req[c].password
        PROVE  sessions'[s].password = password'[u]
    BY <1>4 DEF CommitLogin, FreshLogins, account
  <1>5. QED
    BY <1>1, <1>2, <1>3, <1>4, SessionSteps

\* If login held the account it checks, as reset_password does, a new password
\* would leave no session that does not know it (reset_password, login).
THEOREM FreshLoginsKnowThePassword ==
    Spec /\ [][FreshLogins]_vars => []SessionsKnowThePassword
  <1>1. Init => SessionsMatch
    BY DEF Init, SessionsMatch, NoSession
  <1>2. /\ Inv
        /\ SessionsMatch
        /\ [Next]_vars
        /\ [FreshLogins]_vars
        => SessionsMatch'
    <2>1. CASE UNCHANGED vars
      BY <2>1 DEF vars, account, SessionsMatch
    <2>2. CASE FreshLogins
      BY <2>2, SessionsMatchStep
    <2>3. QED
      BY <2>1, <2>2
  <1>3. SessionsMatch => SessionsKnowThePassword
    BY DEF SessionsMatch, SessionsKnowThePassword
  <1>4. QED
    BY <1>1, <1>2, <1>3, AccountsInvariant, PTL DEF Spec
============================================================================
