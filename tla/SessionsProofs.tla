---------------------------- MODULE SessionsProofs ----------------------------
(***************************************************************************)
(* What holds of Sessions for any number of requests, rows, tokens, limits *)
(* and faults.                                                             *)
(*                                                                         *)
(* Rows and tokens are never reused: a row keeps its kind and its parent    *)
(* and what is gone stays gone (SessionsGrow), a token keeps its session    *)
(* (TokensGrow). What a request has read therefore stays true of the tables *)
(* although other requests change them before it goes on (RequestSafe).     *)
(***************************************************************************)
EXTENDS Sessions, SequenceTheorems, FiniteSetTheorems, TLAPS

RowType   == [kind: {"web", "identity", "device"}, parent: Nat, from: Nat,
              state: {"live", "expired", "gone"}]
TokenType == [session: Nat, state: {"live", "expired", "gone", "replaced"}]

Ops == {"idle", "login.csrf", "login.answer", "logout", "refresh", "refresh.answer",
        "device.identity", "derive", "boot.limit", "boot.ttl", "boot.auth", "boot.count",
        "boot.window", "boot.find", "boot.expire", "bearer", "revoke"}

RequestType == [op: Ops, id: Nat, tok: Nat]

LimiterTyped ==
  /\ hits \in Nat /\ ttl \in BOOLEAN /\ torn \in BOOLEAN
  /\ ttl => hits > 0

Typed ==
  /\ sessions \in Seq(RowType) /\ tokens \in Seq(TokenType)
  /\ stale \subseteq Ids /\ plucked \subseteq Ids /\ ended \subseteq Ids
  /\ jar \in [session: Nat, csrf: Nat]
  /\ req \in [Requests -> RequestType]
  /\ LimiterTyped
  /\ started \in Nat /\ faults \in Nat

Toks == DOMAIN tokens

Web(id) == id \in Ids /\ sessions[id].kind = "web"

\* A session is derived from an identity, which is older, or from none.
RowSafe(id) ==
  /\ sessions[id].parent = sessions[id].from
  /\ sessions[id].from # 0 => sessions[id].from < id /\ Identity(sessions[id].from)

Newer(t) == {u \in Toks : u > t /\ tokens[u].session = tokens[t].session}

\* A token that was replaced has as many newer ones as a session keeps.
TokenSafe(t) ==
  /\ tokens[t].session \in Ids
  /\ tokens[t].state = "replaced" => Cardinality(Newer(t)) >= KeepTokens

JarSafe ==
  /\ jar.session # 0 => Web(jar.session)
  /\ jar.csrf \in {0} \cup Toks

\* r would owe a time to live at x.
Owing(x) == x.op \in {"boot.ttl", "boot.window"}

\* What a request has read of the tables.
Sound(x) ==
  /\ x.op \in {"login.csrf", "login.answer", "logout"} => Web(x.id)
  /\ x.op \in {"derive", "boot.count", "boot.window", "boot.find", "boot.expire", "revoke"}
       => Identity(x.id)
  /\ x.op \in {"refresh", "refresh.answer", "bearer"} => x.id \in Ids
  /\ x.op = "refresh" => x.tok \in {0} \cup Toks
  /\ x.op \in {"login.answer", "refresh.answer"} => x.tok \in Toks

RequestSafe(r) == Sound(req[r])

IInv ==
  /\ Typed
  /\ \A id \in Ids : RowSafe(id)
  /\ \A t \in Toks : TokenSafe(t)
  /\ JarSafe
  /\ \A r \in Requests : RequestSafe(r)
  /\ EndedIsOut
  /\ WindowCloses

-----------------------------------------------------------------------------
(* The tables. Every statement is one of four kinds.                        *)

\* A statement that updates or deletes rows leaves the table its length.
LEMMA SameDomain ==
  ASSUME NEW S, NEW s \in Seq(S), NEW f \in [DOMAIN s -> S]
  PROVE  f \in Seq(S) /\ DOMAIN f = DOMAIN s
BY SeqDef, LenProperties

LEMMA Appended ==
  ASSUME NEW S, NEW s \in Seq(S), NEW e \in S
  PROVE  /\ Append(s, e) \in Seq(S)
         /\ DOMAIN Append(s, e) = DOMAIN s \cup {Len(s) + 1}
         /\ Len(s) + 1 \notin DOMAIN s /\ Len(s) + 1 \in Nat
         /\ \A i \in DOMAIN s : i < Len(s) + 1 /\ Append(s, e)[i] = s[i]
         /\ Append(s, e)[Len(s) + 1] = e
<1>1. Len(s) \in Nat /\ DOMAIN s = 1..Len(s)
  BY LenProperties
<1>2. Append(s, e) \in Seq(S) /\ Len(Append(s, e)) = Len(s) + 1
  BY <1>1
<1>3. DOMAIN Append(s, e) = 1..(Len(s) + 1)
  BY <1>2, LenProperties
<1>4. \A i \in 1..Len(s) : Append(s, e)[i] = s[i]
  BY <1>1
<1>5. Append(s, e)[Len(s) + 1] = e
  BY <1>1
<1> QED
  BY <1>1, <1>2, <1>3, <1>4, <1>5

LEMMA IdsAreNumbers ==
  ASSUME Typed
  PROVE  Ids = 1..Len(sessions) /\ Len(sessions) \in Nat /\ Toks = 1..Len(tokens)
         /\ Len(tokens) \in Nat /\ sessions \in [Ids -> RowType] /\ tokens \in [Toks -> TokenType]
         /\ 0 \notin Ids
BY LenProperties DEF Typed, Ids, Toks

\* What every step does to the tables: rows and tokens keep what they are, what is gone
\* stays gone, and what is new is derived from nothing or from an identity that is there.
Keeps(id) ==
  /\ sessions'[id].kind = sessions[id].kind /\ sessions'[id].parent = sessions[id].parent
  /\ sessions'[id].from = sessions[id].from
  /\ sessions[id].state = "gone" => sessions'[id].state = "gone"

Fresh(id) ==
  /\ sessions'[id].parent = sessions'[id].from
  /\ sessions'[id].from # 0 => /\ sessions'[id].from < id /\ Identity(sessions'[id].from)
                               /\ Present(sessions'[id].from)

SessionsGrow ==
  /\ sessions' \in Seq(RowType)
  /\ \A id \in Ids : id \in Ids' /\ Keeps(id)
  /\ \A id \in Ids' \ Ids : Fresh(id)

TokenKeeps(t) ==
  /\ tokens'[t].session = tokens[t].session
  /\ tokens'[t].state = "replaced" =>
       tokens[t].state = "replaced" \/ Cardinality(Newer(t)') >= KeepTokens

TokensGrow ==
  /\ tokens' \in Seq(TokenType)
  /\ \A t \in Toks : t \in Toks' /\ TokenKeeps(t)
  /\ \A t \in Toks' \ Toks : tokens'[t].session \in Ids /\ tokens'[t].state = "live"

LEMMA SameSessions ==
  ASSUME Typed, UNCHANGED sessions
  PROVE  SessionsGrow /\ Ids' = Ids
BY DEF Typed, SessionsGrow, Keeps, Ids

LEMMA Inserts ==
  ASSUME Typed, NEW k \in {"web", "identity", "device"}, NEW p \in {0} \cup Ids,
         p # 0 => Identity(p) /\ Present(p), Insert(Row(k, p, p))
  PROVE  SessionsGrow /\ Ids' = Ids \cup {Len(sessions) + 1}
         /\ sessions'[Len(sessions) + 1].kind = k /\ Len(sessions) + 1 \in Nat
<1> DEFINE new == Len(sessions) + 1
           row == Row(k, p, p)
<1>1. sessions \in Seq(RowType) /\ row \in RowType
  BY IdsAreNumbers DEF Typed, Row, RowType
<1>2. sessions' = Append(sessions, row)
  BY DEF Insert
<1> HIDE DEF row
<1>3. /\ sessions' \in Seq(RowType) /\ Ids' = Ids \cup {new} /\ new \notin Ids /\ new \in Nat
      /\ \A id \in Ids : id < new /\ sessions'[id] = sessions[id]
      /\ sessions'[new] = row
  BY <1>1, <1>2, Appended DEF Ids
<1>4. row.kind = k /\ row.parent = p /\ row.from = p
  BY DEF row, Row
<1>5. Fresh(new)
  BY <1>3, <1>4 DEF Fresh
<1> QED
  BY <1>3, <1>4, <1>5 DEF SessionsGrow, Keeps

LEMMA GoneGrows ==
  ASSUME Typed, NEW S, sessions' = Gone(S)
  PROVE  SessionsGrow /\ Ids' = Ids /\ (\A id \in Ids \cap S : sessions'[id].state = "gone")
         /\ \A id \in Ids \ S : sessions'[id] = sessions[id]
<1>1. sessions \in Seq(RowType) /\ sessions \in [Ids -> RowType]
  BY IdsAreNumbers DEF Typed
<1>2. \A id \in Ids : [sessions[id] EXCEPT !.state = "gone"] \in RowType
  BY <1>1 DEF RowType
<1>3. sessions' \in [DOMAIN sessions -> RowType]
  BY <1>1, <1>2 DEF Gone, Ids
<1>4. sessions' \in Seq(RowType) /\ Ids' = Ids
  BY <1>1, <1>3, SameDomain DEF Ids
<1>5. \A id \in Ids \ S : sessions'[id] = sessions[id]
  BY DEF Gone
<1>6. \A id \in Ids \cap S : Keeps(id) /\ sessions'[id].state = "gone"
  BY <1>1 DEF Gone, RowType, Keeps
<1> QED
  BY <1>4, <1>5, <1>6 DEF SessionsGrow, Keeps

LEMMA BecomeGrows ==
  ASSUME Typed, NEW S, NEW x \in {"live", "expired"}, sessions' = Become(S, x)
  PROVE  SessionsGrow /\ Ids' = Ids
<1>1. sessions \in Seq(RowType) /\ sessions \in [Ids -> RowType]
  BY IdsAreNumbers DEF Typed
<1>2. \A id \in Ids : [sessions[id] EXCEPT !.state = x] \in RowType
  BY <1>1 DEF RowType
<1>3. sessions' \in [DOMAIN sessions -> RowType]
  BY <1>1, <1>2 DEF Become, Ids
<1>4. sessions' \in Seq(RowType) /\ Ids' = Ids
  BY <1>1, <1>3, SameDomain DEF Ids
<1>5. \A id \in Ids : Keeps(id)
  BY <1>1 DEF Become, RowType, Keeps, Present, Live, Expired
<1> QED
  BY <1>4, <1>5 DEF SessionsGrow

LEMMA SameTokens ==
  ASSUME Typed, UNCHANGED tokens
  PROVE  TokensGrow /\ Toks' = Toks
BY DEF Typed, TokensGrow, TokenKeeps, Toks

LEMMA TokenAdded ==
  ASSUME Typed, NEW id \in Ids, tokens' = AddToken(id)
  PROVE  TokensGrow /\ Toks' = Toks \cup {Len(tokens) + 1} /\ Len(tokens) + 1 \in Nat
<1> DEFINE e == [session |-> id, state |-> "live"]
<1>1. tokens \in Seq(TokenType) /\ e \in TokenType
  BY IdsAreNumbers DEF Typed, TokenType
<1>2. tokens' = Append(tokens, e)
  BY DEF AddToken
<1>3. e.session = id /\ e.state = "live"
  OBVIOUS
<1> HIDE DEF e
<1>4. /\ tokens' \in Seq(TokenType) /\ Toks' = Toks \cup {Len(tokens) + 1}
      /\ Len(tokens) + 1 \in Nat
      /\ \A t \in Toks : tokens'[t] = tokens[t]
      /\ tokens'[Len(tokens) + 1] = e
  BY <1>1, <1>2, Appended DEF Toks
<1> QED
  BY <1>3, <1>4 DEF TokensGrow, TokenKeeps

\* Statements that delete tokens or let them expire.
LEMMA TokensMove ==
  ASSUME Typed, NEW f \in [Toks -> {"live", "expired", "gone"}], NEW T \in SUBSET Toks,
         tokens' = [t \in Toks |-> IF t \in T THEN [tokens[t] EXCEPT !.state = f[t]] ELSE tokens[t]]
  PROVE  TokensGrow /\ Toks' = Toks
<1>1. tokens \in Seq(TokenType) /\ tokens \in [Toks -> TokenType]
  BY IdsAreNumbers DEF Typed
<1>2. \A t \in Toks : [tokens[t] EXCEPT !.state = f[t]] \in TokenType
  BY <1>1 DEF TokenType
<1>3. tokens' \in [DOMAIN tokens -> TokenType]
  BY <1>1, <1>2 DEF Toks
<1>4. tokens' \in Seq(TokenType) /\ Toks' = Toks
  BY <1>1, <1>3, SameDomain DEF Toks
<1>5. \A t \in Toks : TokenKeeps(t)
  BY <1>1 DEF TokenType, TokenKeeps
<1> QED
  BY <1>4, <1>5 DEF TokensGrow

LEMMA TokensGoneGrow ==
  ASSUME Typed, NEW S, tokens' = TokensGone(S)
  PROVE  TokensGrow /\ Toks' = Toks
<1> DEFINE T == {t \in Toks : tokens[t].session \in S}
           f == [t \in Toks |-> "gone"]
<1>1. tokens' = [t \in Toks |-> IF t \in T THEN [tokens[t] EXCEPT !.state = f[t]] ELSE tokens[t]]
  BY DEF TokensGone, Toks
<1>2. f \in [Toks -> {"live", "expired", "gone"}] /\ T \in SUBSET Toks
  OBVIOUS
<1> QED
  BY <1>1, <1>2, TokensMove

LEMMA NewerFinite ==
  ASSUME Typed, NEW t
  PROVE  IsFiniteSet(Newer(t)) /\ Cardinality(Newer(t)) \in Nat
<1>1. IsFiniteSet(Toks)
  BY IdsAreNumbers, FS_Interval
<1>2. Newer(t) \subseteq Toks
  BY DEF Newer
<1> QED
  BY <1>1, <1>2, FS_Subset, FS_CardinalityType

\* What the refresh of a session's token leaves of the others.
KeptTokens(id) ==
  [t \in Toks |-> IF tokens[t].session # id \/ t \in Retained(id) THEN tokens[t]
                  ELSE [tokens[t] EXCEPT !.state =
                          IF @ = "live" THEN "replaced" ELSE IF @ = "expired" THEN "gone" ELSE @]]

\* A token that is not retained has as many newer ones as a session keeps, with the one
\* that replaces it.
LEMMA RefreshReplaces ==
  ASSUME Typed, NEW id \in Ids,
         tokens' = Append(KeptTokens(id), [session |-> id, state |-> "live"])
  PROVE  TokensGrow /\ Toks' = Toks \cup {Len(tokens) + 1} /\ Len(tokens) + 1 \in Nat
<1> DEFINE e == [session |-> id, state |-> "live"]
           new == Len(tokens) + 1
<1>1. tokens \in Seq(TokenType) /\ tokens \in [Toks -> TokenType] /\ Toks = 1..Len(tokens)
      /\ Len(tokens) \in Nat
  BY IdsAreNumbers DEF Typed
<1>2. e \in TokenType /\ e.session = id /\ e.state = "live"
  BY IdsAreNumbers DEF TokenType
<1>3. \A t \in Toks : KeptTokens(id)[t] \in TokenType /\ KeptTokens(id)[t].session = tokens[t].session
  BY <1>1 DEF KeptTokens, TokenType
<1>4. KeptTokens(id) \in [Toks -> TokenType]
  BY <1>3 DEF KeptTokens
<1>5. KeptTokens(id) \in Seq(TokenType) /\ DOMAIN KeptTokens(id) = Toks
  BY <1>1, <1>4, SameDomain DEF Toks
<1>6. Len(KeptTokens(id)) = Len(tokens)
  BY <1>1, <1>5, LenProperties
<1> HIDE DEF e
<1>7. /\ tokens' \in Seq(TokenType) /\ Toks' = Toks \cup {new} /\ new \notin Toks
      /\ \A t \in Toks : t < new /\ tokens'[t] = KeptTokens(id)[t]
      /\ tokens'[new] = e
  <2>1. tokens' = Append(KeptTokens(id), e)
    BY DEF e
  <2> HIDE DEF KeptTokens
  <2> QED
    BY <1>2, <1>5, <1>6, <2>1, Appended DEF Toks
<1>8. ASSUME NEW t \in Toks  PROVE TokenKeeps(t)
  <2>1. tokens'[t].session = tokens[t].session
    BY <1>3, <1>7
  <2>2. ASSUME tokens'[t].state = "replaced", tokens[t].state # "replaced"
        PROVE  Cardinality(Newer(t)') >= KeepTokens
    <3> DEFINE N == {u \in LiveTokens(id) : u > t}
    <3>1. tokens[t].state = "live" /\ tokens[t].session = id /\ t \notin Retained(id)
      BY <1>1, <1>7, <2>2 DEF KeptTokens, TokenType
    <3>2. ~(Cardinality(N) < KeepTokens - 1)
      <4>1. t \in LiveTokens(id)
        BY <3>1 DEF LiveTokens, Toks
      <4> QED
        BY <3>1, <4>1 DEF Retained
    <3>3. IsFiniteSet(N) /\ Cardinality(N) \in Nat /\ new \notin N
      <4>1. N \subseteq Toks
        BY DEF LiveTokens, Toks
      <4>2. IsFiniteSet(Toks)
        BY <1>1, FS_Interval
      <4> QED
        BY <1>7, <4>1, <4>2, FS_Subset, FS_CardinalityType
    <3>4. N \cup {new} \subseteq Newer(t)'
      <4>1. ASSUME NEW u \in N  PROVE u \in Newer(t)'
        <5>1. u \in Toks /\ u > t /\ tokens[u].session = id
          BY DEF LiveTokens, Toks
        <5>2. u \in Toks' /\ tokens'[u].session = id
          BY <1>3, <1>7, <5>1
        <5> QED
          BY <2>1, <3>1, <5>1, <5>2 DEF Newer
      <4>2. new \in Newer(t)'
        BY <1>1, <1>2, <1>7, <2>1, <3>1 DEF Newer
      <4> QED
        BY <4>1, <4>2
    <3>5. IsFiniteSet(Newer(t)') /\ Cardinality(Newer(t)') \in Nat
      <4>1. Toks' = 1..Len(tokens') /\ Len(tokens') \in Nat
        BY <1>7, LenProperties DEF Toks
      <4>2. IsFiniteSet(Toks')
        BY <4>1, FS_Interval
      <4>3. Newer(t)' \subseteq Toks'
        BY DEF Newer
      <4> QED
        BY <4>2, <4>3, FS_Subset, FS_CardinalityType
    <3>6. Cardinality(N \cup {new}) = Cardinality(N) + 1
      BY <3>3, FS_AddElement
    <3>7. Cardinality(N \cup {new}) <= Cardinality(Newer(t)')
      BY <3>4, <3>5, FS_Subset
    <3> HIDE DEF N
    <3> QED
      BY <3>2, <3>3, <3>5, <3>6, <3>7, SessionsAssumption DEF SessionsAssumption
  <2> QED
    BY <2>1, <2>2 DEF TokenKeeps
<1>9. \A t \in Toks' \ Toks : tokens'[t].session \in Ids /\ tokens'[t].state = "live"
  BY <1>2, <1>7
<1>10. TokensGrow
  BY <1>7, <1>8, <1>9 DEF TokensGrow
<1> QED
  BY <1>1, <1>7, <1>10

\* The invariants of rows and tokens follow from how the tables grow.
LEMMA RowsStaySafe ==
  ASSUME Typed, \A id \in Ids : RowSafe(id), SessionsGrow, NEW id \in Ids'
  PROVE  RowSafe(id)'
<1>1. CASE id \in Ids
  <2>1. RowSafe(id) /\ Keeps(id)
    BY <1>1 DEF SessionsGrow
  <2>2. sessions[id].from # 0 => sessions[id].from \in Ids' /\ Keeps(sessions[id].from)
    BY <2>1 DEF RowSafe, Identity, SessionsGrow
  <2> QED
    BY <2>1, <2>2 DEF RowSafe, Keeps, Identity
<1>2. CASE id \notin Ids
  <2>1. Fresh(id)
    BY <1>2 DEF SessionsGrow
  <2>2. sessions'[id].from # 0 => sessions'[id].from \in Ids' /\ Keeps(sessions'[id].from)
    BY <2>1 DEF Fresh, Identity, SessionsGrow
  <2> QED
    BY <2>1, <2>2 DEF Fresh, RowSafe, Keeps, Identity
<1> QED
  BY <1>1, <1>2

LEMMA TokensStaySafe ==
  ASSUME Typed, \A t \in Toks : TokenSafe(t), SessionsGrow, TokensGrow, NEW t \in Toks'
  PROVE  TokenSafe(t)'
<1>1. \A id \in Ids : id \in Ids'
  BY DEF SessionsGrow
<1>2. CASE t \in Toks
  <2>1. TokenSafe(t) /\ TokenKeeps(t)
    BY <1>2 DEF TokensGrow
  <2>2. ASSUME tokens[t].state = "replaced"  PROVE Cardinality(Newer(t)') >= KeepTokens
    <3>1. Newer(t) \subseteq Newer(t)'
      BY <2>1 DEF Newer, TokensGrow, TokenKeeps
    <3>2. IsFiniteSet(Newer(t)') /\ Cardinality(Newer(t)') \in Nat
      <4>1. Toks' = 1..Len(tokens') /\ Len(tokens') \in Nat
        BY LenProperties DEF Toks, TokensGrow
      <4>2. IsFiniteSet(Toks')
        BY <4>1, FS_Interval
      <4>3. Newer(t)' \subseteq Toks'
        BY DEF Newer
      <4> QED
        BY <4>2, <4>3, FS_Subset, FS_CardinalityType
    <3>3. Cardinality(Newer(t)) <= Cardinality(Newer(t)') /\ Cardinality(Newer(t)) \in Nat
      BY <3>1, <3>2, NewerFinite, FS_Subset
    <3> QED
      BY <2>1, <2>2, <3>2, <3>3, SessionsAssumption DEF TokenSafe, SessionsAssumption
  <2> QED
    BY <1>1, <2>1, <2>2 DEF TokenSafe, TokenKeeps
<1>3. CASE t \notin Toks
  BY <1>1, <1>3 DEF TokensGrow, TokenSafe
<1> QED
  BY <1>2, <1>3

-----------------------------------------------------------------------------
(* The rest of the invariant, while the tables grow.                        *)

LEMMA Grown ==
  ASSUME IInv, SessionsGrow, TokensGrow
  PROVE  /\ \A id \in Ids : id \in Ids'
         /\ UNCHANGED jar => JarSafe'
         /\ \A x : Sound(x) => Sound(x)'
<1>1. \A id \in Ids : id \in Ids' /\ Keeps(id)
  BY DEF SessionsGrow
<1>2. \A t \in Toks : t \in Toks'
  BY DEF TokensGrow
<1>3. \A id : (Web(id) => Web(id)') /\ (Identity(id) => Identity(id)')
  BY <1>1 DEF Web, Identity, Keeps
<1>4. UNCHANGED jar => JarSafe'
  BY <1>2, <1>3 DEF IInv, JarSafe
<1>5. \A x : Sound(x) => Sound(x)'
  BY <1>1, <1>2, <1>3 DEF Sound
<1> QED
  BY <1>1, <1>4, <1>5

\* Sessions that end are gone, with all that was derived from them.
LEMMA EndedStay ==
  ASSUME IInv, SessionsGrow, NEW X \in SUBSET Ids, ended' = ended \cup X,
         \A id \in Ids' : id \in X \/ sessions'[id].from \in X => sessions'[id].state = "gone"
  PROVE  ended' \subseteq Ids' /\ EndedIsOut'
<1>1. ended \subseteq Ids /\ 0 \notin Ids /\ sessions \in [Ids -> RowType]
  BY IdsAreNumbers DEF IInv, Typed
<1>2. ended' \subseteq Ids'
  BY <1>1 DEF SessionsGrow
<1>3. ASSUME NEW id \in Ids', id \in ended \/ sessions'[id].from \in ended
      PROVE  ~Present(id)'
  <2>1. CASE id \in Ids
    <3>1. Keeps(id) /\ ~Present(id)
      BY <1>3, <2>1 DEF SessionsGrow, Keeps, IInv, EndedIsOut
    <3>2. sessions[id].state = "gone"
      BY <1>1, <2>1, <3>1 DEF RowType, Present, Live, Expired
    <3> QED
      BY <3>1, <3>2 DEF Keeps, Present, Live, Expired
  <2>2. CASE id \notin Ids
    <3>1. Fresh(id) /\ sessions'[id].from \in ended
      BY <1>1, <1>3, <2>2 DEF SessionsGrow
    <3>2. sessions'[id].from \in Ids /\ sessions'[id].from # 0 /\ Present(sessions'[id].from)
      BY <1>1, <3>1 DEF Fresh
    <3>3. \A p \in Ids : p \in ended => ~Present(p)
      BY DEF IInv, EndedIsOut
    <3> QED
      BY <3>1, <3>2, <3>3
  <2> QED
    BY <2>1, <2>2
<1>4. ASSUME NEW id \in Ids', id \in X \/ sessions'[id].from \in X
      PROVE  ~Present(id)'
  BY <1>4 DEF Present, Live, Expired
<1> QED
  BY <1>2, <1>3, <1>4 DEF EndedIsOut

LEMMA NothingEnds ==
  ASSUME IInv, SessionsGrow, UNCHANGED ended
  PROVE  ended' \subseteq Ids' /\ EndedIsOut'
<1> DEFINE X == {}
<1>1. ended' = ended \cup X /\ X \in SUBSET Ids
  OBVIOUS
<1>2. \A id \in Ids' : id \in X \/ sessions'[id].from \in X => sessions'[id].state = "gone"
  OBVIOUS
<1> HIDE DEF X
<1> QED
  BY <1>1, <1>2, EndedStay

LEMMA Together ==
  ASSUME IInv, SessionsGrow, TokensGrow,
         stale' \subseteq Ids', plucked' \subseteq Ids', ended' \subseteq Ids', EndedIsOut',
         jar' \in [session: Nat, csrf: Nat], JarSafe',
         req' \in [Requests -> RequestType],
         \A q \in Requests : req'[q] = req[q] \/ RequestSafe(q)',
         LimiterTyped', started' \in Nat, faults' \in Nat, WindowCloses'
  PROVE  IInv'
<1>1. Typed'
  BY DEF Typed, SessionsGrow, TokensGrow
<1>2. \A id \in Ids' : RowSafe(id)'
  BY RowsStaySafe DEF IInv
<1>3. \A t \in Toks' : TokenSafe(t)'
  BY TokensStaySafe DEF IInv
<1>4. ASSUME NEW q \in Requests  PROVE RequestSafe(q)'
  <2>1. CASE req'[q] = req[q]
    <3>1. PICK x : x = req[q]
      OBVIOUS
    <3>2. Sound(x)
      BY <3>1 DEF IInv, RequestSafe
    <3>3. Sound(x)' /\ req'[q] = x
      BY <2>1, <3>1, <3>2, Grown
    <3> QED
      BY <3>3 DEF RequestSafe, Sound
  <2> QED
    BY <2>1
<1> QED
  BY <1>1, <1>2, <1>3, <1>4 DEF IInv

\* Who owes a time to live when r has gone on to a step where it owes none.
LEMMA Owners ==
  ASSUME IInv, NEW r \in Requests, NEW x, req' = [req EXCEPT ![r] = x], ~Owing(x)
  PROVE  \A q \in Requests : Owes(q)' <=> q # r /\ Owes(q)
<1>1. req \in [Requests -> RequestType]
  BY DEF IInv, Typed
<1> QED
  BY <1>1 DEF Owes, At, Owing

LEMMA WindowKept ==
  ASSUME IInv, hits' > 0 <=> hits > 0, UNCHANGED <<ttl, torn>>,
         \A q \in Requests : Owes(q)' <=> Owes(q)
  PROVE  WindowCloses'
BY DEF IInv, WindowCloses

LEMMA WindowStays ==
  ASSUME IInv, NEW r \in Requests, NEW x, req' = [req EXCEPT ![r] = x],
         ~Owing(req[r]), ~Owing(x), UNCHANGED limiter
  PROVE  WindowCloses'
<1>1. ~Owes(r)
  BY DEF Owes, At, Owing
<1>2. \A q \in Requests : Owes(q)' <=> Owes(q)
  BY <1>1, Owners
<1> QED
  BY <1>2, WindowKept DEF limiter

\* A request takes a step in the tables.
LEMMA RequestMoves ==
  ASSUME IInv, SessionsGrow, TokensGrow,
         NEW r \in Requests, NEW x \in RequestType, req' = [req EXCEPT ![r] = x], Sound(x)',
         ~Owing(req[r]), ~Owing(x), UNCHANGED <<stale, plucked, jar, limiter, ended, faults>>,
         started' \in Nat
  PROVE  IInv'
<1>1. /\ stale \subseteq Ids /\ plucked \subseteq Ids
      /\ jar \in [session: Nat, csrf: Nat] /\ req \in [Requests -> RequestType]
      /\ LimiterTyped /\ faults \in Nat
  BY DEF IInv, Typed
<1>2. stale' \subseteq Ids' /\ plucked' \subseteq Ids'
  BY <1>1, Grown
<1>3. req' \in [Requests -> RequestType]
  BY <1>1
<1>4. \A q \in Requests : req'[q] = req[q] \/ RequestSafe(q)'
  <2>1. \A q \in Requests : q # r => req'[q] = req[q]
    BY <1>1
  <2>2. req'[r] = x
    BY <1>1
  <2>3. RequestSafe(r)'
    BY <2>2 DEF RequestSafe, Sound
  <2> QED
    BY <2>1, <2>3
<1>5. WindowCloses'
  BY WindowStays DEF Owing
<1>6. LimiterTyped'
  BY <1>1 DEF LimiterTyped, limiter
<1> QED
  BY <1>1, <1>2, <1>3, <1>4, <1>5, <1>6, Grown, NothingEnds, Together

\* The workers, and time.
LEMMA TablesMove ==
  ASSUME IInv, SessionsGrow, TokensGrow, stale' \subseteq Ids', plucked' \subseteq Ids',
         UNCHANGED <<jar, req, limiter, ended, bounds>>
  PROVE  IInv'
<1>1. /\ jar \in [session: Nat, csrf: Nat] /\ req \in [Requests -> RequestType]
      /\ LimiterTyped /\ faults \in Nat /\ started \in Nat
  BY DEF IInv, Typed
<1>2. WindowCloses' /\ LimiterTyped'
  BY <1>1, WindowKept DEF Owes, At, limiter, LimiterTyped
<1> QED
  BY <1>1, <1>2, Grown, NothingEnds, Together DEF bounds

-----------------------------------------------------------------------------
(* The browser.                                                             *)

LEMMA Facts ==
  ASSUME IInv
  PROVE  /\ Typed /\ req \in [Requests -> RequestType]
         /\ Len(sessions) + 1 \in Nat /\ Len(tokens) + 1 \in Nat
         /\ Ids \subseteq Nat /\ Toks \subseteq Nat /\ 0 \notin Ids
         /\ Idle \in RequestType
         /\ started \in Nat /\ faults \in Nat /\ started + 1 \in Nat /\ faults + 1 \in Nat
         /\ jar \in [session: Nat, csrf: Nat]
<1>1. Typed
  BY DEF IInv
<1>2. Ids \subseteq Nat /\ Toks \subseteq Nat /\ 0 \notin Ids /\ Len(sessions) + 1 \in Nat
      /\ Len(tokens) + 1 \in Nat
  BY <1>1, IdsAreNumbers
<1>3. Idle \in RequestType
  BY DEF Idle, RequestType, Ops
<1>4. started \in Nat /\ faults \in Nat /\ jar \in [session: Nat, csrf: Nat]
      /\ req \in [Requests -> RequestType]
  BY <1>1 DEF Typed
<1> QED
  BY <1>1, <1>2, <1>3, <1>4

LEMMA LoginSessionSafe == ASSUME IInv, NEW r \in Requests, LoginSession(r)  PROVE IInv'
<1>1. PICK n : n = Len(sessions) + 1
  OBVIOUS
<1>2. PICK x : x = [op |-> "login.csrf", id |-> n, tok |-> 0]
  OBVIOUS
<1>3. /\ Insert(Row("web", 0, 0)) /\ req[r] = Idle
      /\ req' = [req EXCEPT ![r] = x] /\ started' = started + 1
      /\ UNCHANGED <<tokens, stale, plucked, jar, limiter, ended, faults>>
  BY <1>1, <1>2 DEF LoginSession, Start
<1>4. SessionsGrow /\ Web(n)'
  BY <1>1, <1>3, Facts, Inserts DEF Web
<1>5. TokensGrow
  BY <1>3, Facts, SameTokens
<1>6. x \in RequestType /\ Sound(x)'
  BY <1>1, <1>2, <1>4, Facts DEF RequestType, Ops, Sound
<1>7. ~Owing(req[r]) /\ ~Owing(x)
  BY <1>2, <1>3 DEF Owing, Idle
<1> QED
  BY <1>3, <1>4, <1>5, <1>6, <1>7, Facts, RequestMoves

LEMMA LoginTokenSafe == ASSUME IInv, NEW r \in Requests, LoginToken(r)  PROVE IInv'
<1>1. PICK id : id = req[r].id
  OBVIOUS
<1>2. req[r].op = "login.csrf" /\ Web(id) /\ id \in Ids
  BY <1>1 DEF LoginToken, At, IInv, RequestSafe, Sound, Web
<1>3. UNCHANGED <<sessions, stale, plucked, jar, limiter, ended, bounds>>
  BY DEF LoginToken
<1>4. SessionsGrow
  BY <1>3, Facts, SameSessions
<1>5. CASE Present(id)
  <2>1. PICK x : x = [op |-> "login.answer", id |-> id, tok |-> Len(tokens) + 1]
    OBVIOUS
  <2>2. tokens' = AddToken(id) /\ req' = [req EXCEPT ![r] = x]
    BY <1>1, <1>5, <2>1 DEF LoginToken, Step
  <2>3. TokensGrow /\ Len(tokens) + 1 \in Toks'
    BY <1>2, <2>2, Facts, TokenAdded
  <2>4. Web(id)'
    BY <1>2, <1>4 DEF Web, SessionsGrow, Keeps
  <2>5. x \in RequestType /\ Sound(x)'
    BY <1>2, <2>1, <2>3, <2>4, Facts DEF RequestType, Ops, Sound
  <2>6. ~Owing(req[r]) /\ ~Owing(x)
    BY <1>2, <2>1 DEF Owing, Idle
  <2> QED
    BY <1>2, <1>3, <1>4, <2>2, <2>3, <2>5, <2>6, Facts, RequestMoves DEF bounds
<1>6. CASE ~Present(id)
  <2>1. req' = [req EXCEPT ![r] = Idle] /\ UNCHANGED tokens
    BY <1>1, <1>6 DEF LoginToken, End
  <2>2. TokensGrow
    BY <2>1, Facts, SameTokens
  <2>3. Sound(Idle)'
    BY DEF Sound, Idle
  <2>4. ~Owing(req[r]) /\ ~Owing(Idle)
    BY <1>2 DEF Owing, Idle
  <2> QED
    BY <1>2, <1>3, <1>4, <2>1, <2>2, <2>3, <2>4, Facts, RequestMoves DEF bounds
<1> QED
  BY <1>5, <1>6

LEMMA LogoutTokensSafe == ASSUME IInv, NEW r \in Requests, LogoutTokens(r)  PROVE IInv'
<1>1. PICK id : id = jar.session
  OBVIOUS
<1>2. PICK x : x = [op |-> "logout", id |-> id, tok |-> 0]
  OBVIOUS
<1>3. /\ id \in Ids /\ req[r] = Idle
      /\ req' = [req EXCEPT ![r] = x] /\ started' = started + 1
      /\ tokens' = TokensGone({id})
      /\ UNCHANGED <<sessions, stale, plucked, jar, limiter, ended, faults>>
  BY <1>1, <1>2 DEF LogoutTokens, Start, Live
<1>4. Web(id)
  BY <1>1, <1>3, Facts DEF IInv, JarSafe
<1>5. SessionsGrow
  BY <1>3, Facts, SameSessions
<1>6. TokensGrow
  BY <1>3, Facts, TokensGoneGrow
<1>7. x \in RequestType /\ Sound(x)'
  BY <1>2, <1>3, <1>4, <1>5, Facts DEF RequestType, Ops, Sound, Web, SessionsGrow, Keeps
<1>8. ~Owing(req[r]) /\ ~Owing(x)
  BY <1>2, <1>3 DEF Owing, Idle
<1> QED
  BY <1>3, <1>5, <1>6, <1>7, <1>8, Facts, RequestMoves

LEMMA AskRefreshSafe == ASSUME IInv, NEW r \in Requests, AskRefresh(r)  PROVE IInv'
<1>1. PICK x : x = [op |-> "refresh", id |-> jar.session, tok |-> jar.csrf]
  OBVIOUS
<1>2. /\ jar.session \in Ids /\ req[r] = Idle
      /\ req' = [req EXCEPT ![r] = x] /\ started' = started + 1
      /\ UNCHANGED <<sessions, tokens, stale, plucked, jar, limiter, ended, faults>>
  BY <1>1 DEF AskRefresh, Start, Live
<1>3. jar.csrf \in {0} \cup Toks
  BY DEF IInv, JarSafe
<1>4. SessionsGrow /\ TokensGrow /\ Ids' = Ids /\ Toks' = Toks
  BY <1>2, Facts, SameSessions, SameTokens
<1>5. x \in RequestType
  BY <1>1, Facts DEF RequestType, Ops
<1>6. Sound(x)'
  BY <1>1, <1>2, <1>3, <1>4 DEF Sound
<1>7. ~Owing(req[r]) /\ ~Owing(x)
  BY <1>1, <1>2 DEF Owing, Idle
<1> QED
  BY <1>2, <1>4, <1>5, <1>6, <1>7, Facts, RequestMoves

LEMMA RefreshSafe == ASSUME IInv, NEW r \in Requests, Refresh(r)  PROVE IInv'
<1>1. PICK id, tok : id = req[r].id /\ tok = req[r].tok
  OBVIOUS
<1> DEFINE Known == /\ tok # 0
                    /\ tokens[tok].session = id /\ tokens[tok].state \in {"live", "expired"}
<1>2. req[r].op = "refresh" /\ id \in Ids /\ tok \in {0} \cup Toks
  BY <1>1 DEF Refresh, At, IInv, RequestSafe, Sound
<1>3. UNCHANGED <<sessions, stale, plucked, jar, limiter, ended, bounds>>
  BY DEF Refresh
<1>4. SessionsGrow /\ Ids' = Ids
  BY <1>3, Facts, SameSessions
<1>5. \/ req' = [req EXCEPT ![r] = Idle] /\ UNCHANGED tokens
      \/ /\ Known /\ tokens' = [tokens EXCEPT ![tok].state = "live"]
         /\ req' = [req EXCEPT ![r] = [op |-> "refresh.answer", id |-> id, tok |-> tok]]
      \/ /\ tokens' = Append(KeptTokens(id), [session |-> id, state |-> "live"])
         /\ req' = [req EXCEPT ![r] = [op |-> "refresh.answer", id |-> id, tok |-> Len(tokens) + 1]]
  BY <1>1 DEF Refresh, KeptTokens, Toks, Step, End
<1>6. CASE req' = [req EXCEPT ![r] = Idle] /\ UNCHANGED tokens
  <2>1. TokensGrow
    BY <1>6, Facts, SameTokens
  <2>2. Sound(Idle)'
    BY DEF Sound, Idle
  <2>3. ~Owing(req[r]) /\ ~Owing(Idle)
    BY <1>2 DEF Owing, Idle
  <2> QED
    BY <1>2, <1>3, <1>4, <1>6, <2>1, <2>2, <2>3, Facts, RequestMoves DEF bounds
<1>7. CASE /\ Known /\ tokens' = [tokens EXCEPT ![tok].state = "live"]
           /\ req' = [req EXCEPT ![r] = [op |-> "refresh.answer", id |-> id, tok |-> tok]]
  <2> DEFINE f == [t \in Toks |-> "live"]
  <2>1. tok \in Toks
    BY <1>2, <1>7
  <2>2. tokens \in [Toks -> TokenType]
    BY Facts, IdsAreNumbers
  <2>3. tokens' = [t \in Toks |-> IF t \in {tok} THEN [tokens[t] EXCEPT !.state = f[t]] ELSE tokens[t]]
    BY <1>7, <2>1, <2>2
  <2>4. f \in [Toks -> {"live", "expired", "gone"}] /\ {tok} \in SUBSET Toks
    BY <2>1
  <2>5. TokensGrow /\ Toks' = Toks
    <3> HIDE DEF f
    <3> QED
      BY <2>3, <2>4, Facts, TokensMove
  <2>6. PICK x : x = [op |-> "refresh.answer", id |-> id, tok |-> tok]
    OBVIOUS
  <2>7. x \in RequestType
    BY <1>2, <2>1, <2>6, Facts DEF RequestType, Ops
  <2>8. Sound(x)'
    BY <1>2, <1>4, <2>1, <2>5, <2>6 DEF Sound
  <2>9. req' = [req EXCEPT ![r] = x]
    BY <1>7, <2>6
  <2>10. ~Owing(req[r]) /\ ~Owing(x)
    BY <1>2, <2>6 DEF Owing, Idle
  <2> QED
    BY <1>2, <1>3, <1>4, <2>5, <2>7, <2>8, <2>9, <2>10, Facts, RequestMoves DEF bounds
<1>8. CASE /\ tokens' = Append(KeptTokens(id), [session |-> id, state |-> "live"])
           /\ req' = [req EXCEPT ![r] = [op |-> "refresh.answer", id |-> id, tok |-> Len(tokens) + 1]]
  <2>1. TokensGrow /\ Len(tokens) + 1 \in Toks' /\ Len(tokens) + 1 \in Nat
    BY <1>2, <1>8, Facts, RefreshReplaces
  <2>2. PICK x : x = [op |-> "refresh.answer", id |-> id, tok |-> Len(tokens) + 1]
    OBVIOUS
  <2>3. x \in RequestType
    BY <1>2, <2>1, <2>2, Facts DEF RequestType, Ops
  <2>4. Sound(x)'
    BY <1>2, <1>4, <2>1, <2>2 DEF Sound
  <2>5. req' = [req EXCEPT ![r] = x]
    BY <1>8, <2>2
  <2>6. ~Owing(req[r]) /\ ~Owing(x)
    BY <1>2, <2>2 DEF Owing, Idle
  <2> QED
    BY <1>2, <1>3, <1>4, <2>1, <2>3, <2>4, <2>5, <2>6, Facts, RequestMoves DEF bounds
<1> HIDE DEF Known
<1> QED
  BY <1>5, <1>6, <1>7, <1>8

LEMMA EndsSafely ==
  ASSUME IInv, NEW r \in Requests, req' = [req EXCEPT ![r] = Idle]
  PROVE  \A q \in Requests : req'[q] = req[q] \/ RequestSafe(q)'
<1>1. req \in [Requests -> RequestType]
  BY Facts
<1>2. req'[r] = Idle /\ \A q \in Requests : q # r => req'[q] = req[q]
  BY <1>1
<1>3. RequestSafe(r)'
  BY <1>2 DEF RequestSafe, Sound, Idle
<1> QED
  BY <1>2, <1>3

\* An answer sets cookies.
LEMMA JarMoves ==
  ASSUME IInv, SessionsGrow, TokensGrow, Ids' = Ids,
         NEW r \in Requests, req' = [req EXCEPT ![r] = Idle], req[r].op # "boot.ttl", req[r].op # "boot.window",
         jar' \in [session: Nat, csrf: Nat], JarSafe',
         UNCHANGED <<stale, plucked, limiter, ended, bounds>>
  PROVE  IInv'
<1>1. req' \in [Requests -> RequestType]
  BY Facts
<1>2. \A q \in Requests : req'[q] = req[q] \/ RequestSafe(q)'
  BY EndsSafely
<1>3. WindowCloses'
  BY WindowStays DEF Owing, Idle
<1>4. /\ stale' \subseteq Ids' /\ plucked' \subseteq Ids'
      /\ LimiterTyped' /\ started' \in Nat /\ faults' \in Nat
  BY DEF IInv, Typed, LimiterTyped, limiter, bounds
<1>5. ended' \subseteq Ids' /\ EndedIsOut'
  BY NothingEnds
<1> QED
  BY <1>1, <1>2, <1>3, <1>4, <1>5, Together

\* A session that is no identity ends alone.
LEMMA EndsAlone ==
  ASSUME IInv, NEW id \in Ids, ~Identity(id), sessions' = Gone({id}), ended' = ended \cup {id}
  PROVE  ended' \subseteq Ids' /\ EndedIsOut'
<1>1. SessionsGrow /\ Ids' = Ids /\ sessions'[id].state = "gone"
  BY Facts, GoneGrows
<1>2. \A c \in Ids : sessions'[c].from # id
  <2>1. \A c \in Ids : sessions'[c].from = sessions[c].from /\ RowSafe(c)
    BY <1>1 DEF SessionsGrow, Keeps, IInv
  <2> QED
    BY <2>1, Facts DEF RowSafe
<1>3. PICK X : X = {id}
  OBVIOUS
<1>4. X \in SUBSET Ids /\ ended' = ended \cup X
  BY <1>3
<1>5. \A c \in Ids' : c \in X \/ sessions'[c].from \in X => sessions'[c].state = "gone"
  BY <1>1, <1>2, <1>3
<1> QED
  BY <1>1, <1>4, <1>5, EndedStay

LEMMA LoginAnswerSafe == ASSUME IInv, NEW r \in Requests, LoginAnswer(r)  PROVE IInv'
<1>1. /\ req[r].op = "login.answer" /\ req' = [req EXCEPT ![r] = Idle]
      /\ jar' = [session |-> req[r].id, csrf |-> req[r].tok]
      /\ UNCHANGED <<sessions, tokens, stale, plucked, limiter, ended, bounds>>
  BY DEF LoginAnswer, At, End
<1>2. Web(req[r].id) /\ req[r].tok \in Toks
  BY <1>1 DEF IInv, RequestSafe, Sound
<1>3. SessionsGrow /\ TokensGrow /\ Ids' = Ids /\ Toks' = Toks
  BY <1>1, Facts, SameSessions, SameTokens
<1>4. jar' \in [session: Nat, csrf: Nat]
  BY <1>1, Facts DEF RequestType
<1>5. JarSafe'
  BY <1>1, <1>2 DEF JarSafe, Web, Toks, Ids
<1> QED
  BY <1>1, <1>3, <1>4, <1>5, JarMoves

LEMMA RefreshAnswerSafe == ASSUME IInv, NEW r \in Requests, RefreshAnswer(r)  PROVE IInv'
<1>1. /\ req[r].op = "refresh.answer" /\ req' = [req EXCEPT ![r] = Idle]
      /\ jar' = [jar EXCEPT !.csrf = req[r].tok]
      /\ UNCHANGED <<sessions, tokens, stale, plucked, limiter, ended, bounds>>
  BY DEF RefreshAnswer, At, End
<1>2. req[r].tok \in Toks
  BY <1>1 DEF IInv, RequestSafe, Sound
<1>3. SessionsGrow /\ TokensGrow /\ Ids' = Ids /\ Toks' = Toks
  BY <1>1, Facts, SameSessions, SameTokens
<1>4. jar' \in [session: Nat, csrf: Nat] /\ jar'.session = jar.session /\ jar'.csrf = req[r].tok
  BY <1>1, Facts DEF RequestType
<1>5. JarSafe'
  BY <1>1, <1>2, <1>4 DEF JarSafe, Web, Toks, Ids, IInv
<1> QED
  BY <1>1, <1>3, <1>4, <1>5, JarMoves

LEMMA DropCookieSafe == ASSUME IInv, DropCookie  PROVE IInv'
<1>1. /\ jar' = [jar EXCEPT !.csrf = 0]
      /\ UNCHANGED <<sessions, tokens, stale, plucked, req, limiter, ended, bounds>>
  BY DEF DropCookie
<1>2. SessionsGrow /\ TokensGrow /\ Ids' = Ids /\ Toks' = Toks
  BY <1>1, Facts, SameSessions, SameTokens
<1>3. jar' \in [session: Nat, csrf: Nat] /\ jar'.session = jar.session /\ jar'.csrf = 0
  BY <1>1, Facts
<1>4. JarSafe'
  BY <1>1, <1>3 DEF JarSafe, Web, Toks, Ids, IInv
<1>5. \A q \in Requests : req'[q] = req[q]
  BY <1>1
<1>6. WindowCloses'
  BY <1>1, WindowKept DEF Owes, At, limiter
<1>7. /\ stale' \subseteq Ids' /\ plucked' \subseteq Ids' /\ req' \in [Requests -> RequestType]
      /\ LimiterTyped' /\ started' \in Nat /\ faults' \in Nat
  BY <1>1, <1>2 DEF IInv, Typed, LimiterTyped, limiter, bounds
<1>8. ended' \subseteq Ids' /\ EndedIsOut'
  BY <1>1, <1>2, NothingEnds
<1> QED
  BY <1>2, <1>3, <1>4, <1>5, <1>6, <1>7, <1>8, Together

\* The logout is the one step of the browser that ends a session: nothing is derived from
\* one of the browser's.
LEMMA LogoutSessionSafe == ASSUME IInv, NEW r \in Requests, LogoutSession(r)  PROVE IInv'
<1>1. PICK id : id = req[r].id
  OBVIOUS
<1>2. /\ req[r].op = "logout" /\ req' = [req EXCEPT ![r] = Idle]
      /\ sessions' = Gone({id}) /\ tokens' = TokensGone({id}) /\ ended' = ended \cup {id}
      /\ jar' = [session |-> 0, csrf |-> 0]
      /\ UNCHANGED <<stale, plucked, limiter, bounds>>
  BY <1>1 DEF LogoutSession, At, End, DeleteRows
<1>3. Web(id) /\ id \in Ids /\ ~Identity(id)
  BY <1>1, <1>2 DEF IInv, RequestSafe, Sound, Web, Identity
<1>4. SessionsGrow /\ TokensGrow /\ Ids' = Ids /\ Toks' = Toks
  BY <1>2, Facts, GoneGrows, TokensGoneGrow
<1>5. ended' \subseteq Ids' /\ EndedIsOut'
  BY <1>2, <1>3, <1>4, EndsAlone
<1>6. jar' \in [session: Nat, csrf: Nat] /\ JarSafe'
  BY <1>2 DEF JarSafe
<1>7. req' \in [Requests -> RequestType]
  BY <1>2, Facts
<1>8. \A q \in Requests : req'[q] = req[q] \/ RequestSafe(q)'
  BY <1>2, Facts, EndsSafely
<1>9. WindowCloses'
  BY <1>2, Facts, WindowStays DEF Owing, Idle
<1>10. /\ stale' \subseteq Ids' /\ plucked' \subseteq Ids'
       /\ LimiterTyped' /\ started' \in Nat /\ faults' \in Nat
  BY <1>2, <1>4 DEF IInv, Typed, LimiterTyped, limiter, bounds
<1> QED
  BY <1>4, <1>5, <1>6, <1>7, <1>8, <1>9, <1>10, Together

-----------------------------------------------------------------------------
(* Devices.                                                                 *)

LEMMA DeviceLoginSafe == ASSUME IInv, NEW r \in Requests, DeviceLogin(r)  PROVE IInv'
<1>1. PICK x : x = [op |-> "device.identity", id |-> 0, tok |-> 0]
  OBVIOUS
<1>2. /\ req[r] = Idle /\ req' = [req EXCEPT ![r] = x] /\ started' = started + 1
      /\ UNCHANGED <<sessions, tokens, stale, plucked, jar, limiter, ended, faults>>
  BY <1>1 DEF DeviceLogin, Start
<1>3. SessionsGrow /\ TokensGrow
  BY <1>2, Facts, SameSessions, SameTokens
<1>4. x \in RequestType /\ Sound(x)'
  BY <1>1 DEF RequestType, Ops, Sound
<1>5. ~Owing(req[r]) /\ ~Owing(x)
  BY <1>1, <1>2 DEF Owing, Idle
<1> QED
  BY <1>2, <1>3, <1>4, <1>5, Facts, RequestMoves

LEMMA DeviceIdentitySafe == ASSUME IInv, NEW r \in Requests, DeviceIdentity(r)  PROVE IInv'
<1>1. PICK n : n = Len(sessions) + 1
  OBVIOUS
<1>2. PICK x : x = [op |-> "derive", id |-> n, tok |-> 0]
  OBVIOUS
<1>3. /\ req[r].op = "device.identity" /\ Insert(Row("identity", 0, 0))
      /\ req' = [req EXCEPT ![r] = x]
      /\ UNCHANGED <<tokens, stale, plucked, jar, limiter, ended, bounds>>
  BY <1>1, <1>2 DEF DeviceIdentity, At, Step
<1>4. SessionsGrow /\ Identity(n)'
  BY <1>1, <1>3, Facts, Inserts DEF Identity
<1>5. TokensGrow
  BY <1>3, Facts, SameTokens
<1>6. x \in RequestType /\ Sound(x)'
  BY <1>1, <1>2, <1>4, Facts DEF RequestType, Ops, Sound
<1>7. ~Owing(req[r]) /\ ~Owing(x)
  BY <1>2, <1>3 DEF Owing, Idle
<1> QED
  BY <1>3, <1>4, <1>5, <1>6, <1>7, Facts, RequestMoves DEF bounds

LEMMA DeriveSessionSafe == ASSUME IInv, NEW r \in Requests, DeriveSession(r)  PROVE IInv'
<1>1. PICK id : id = req[r].id
  OBVIOUS
<1>2. /\ req[r].op = "derive" /\ req' = [req EXCEPT ![r] = Idle]
      /\ IF Present(id) THEN Insert(Row("device", id, id)) ELSE UNCHANGED sessions
      /\ UNCHANGED <<tokens, stale, plucked, jar, limiter, ended, bounds>>
  BY <1>1 DEF DeriveSession, At, End, Referable
<1>3. Identity(id) /\ id \in Ids
  BY <1>1, <1>2 DEF IInv, RequestSafe, Sound, Identity
<1>4. SessionsGrow
  <2>1. CASE Present(id)
    BY <1>2, <1>3, <2>1, Facts, Inserts
  <2>2. CASE ~Present(id)
    BY <1>2, <2>2, Facts, SameSessions
  <2> QED
    BY <2>1, <2>2
<1>5. TokensGrow
  BY <1>2, Facts, SameTokens
<1>6. Sound(Idle)'
  BY DEF Sound, Idle
<1>7. ~Owing(req[r]) /\ ~Owing(Idle)
  BY <1>2 DEF Owing, Idle
<1> QED
  BY <1>2, <1>4, <1>5, <1>6, <1>7, Facts, RequestMoves DEF bounds

LEMMA BootstrapExpireSafe == ASSUME IInv, NEW r \in Requests, BootstrapExpire(r)  PROVE IInv'
<1>1. PICK id : id = req[r].id
  OBVIOUS
<1>2. PICK x : x = [op |-> "derive", id |-> id, tok |-> 0]
  OBVIOUS
<1>3. /\ req[r].op = "boot.expire" /\ sessions' = Become(Derived(id), "expired")
      /\ req' = [req EXCEPT ![r] = x]
      /\ UNCHANGED <<tokens, stale, plucked, jar, limiter, ended, bounds>>
  BY <1>1, <1>2 DEF BootstrapExpire, At, Step
<1>4. Identity(id) /\ id \in Ids
  BY <1>1, <1>3 DEF IInv, RequestSafe, Sound, Identity
<1>5. SessionsGrow
  BY <1>3, Facts, BecomeGrows
<1>6. TokensGrow
  BY <1>3, Facts, SameTokens
<1>7. Identity(id)'
  BY <1>4, <1>5 DEF Identity, SessionsGrow, Keeps
<1>8. x \in RequestType /\ Sound(x)'
  BY <1>2, <1>4, <1>7, Facts DEF RequestType, Ops, Sound
<1>9. ~Owing(req[r]) /\ ~Owing(x)
  BY <1>2, <1>3 DEF Owing, Idle
<1> QED
  BY <1>3, <1>5, <1>6, <1>8, <1>9, Facts, RequestMoves DEF bounds

LEMMA BearerSafe == ASSUME IInv, NEW r \in Requests, Bearer(r)  PROVE IInv'
<1>1. PICK id \in Ids : Start(r, "bearer", id, 0)
  BY DEF Bearer
<1>2. PICK x : x = [op |-> "bearer", id |-> id, tok |-> 0]
  OBVIOUS
<1>3. /\ req[r] = Idle /\ req' = [req EXCEPT ![r] = x] /\ started' = started + 1
      /\ UNCHANGED <<sessions, tokens, stale, plucked, jar, limiter, ended, faults>>
  BY <1>1, <1>2 DEF Bearer, Start
<1>4. SessionsGrow /\ TokensGrow /\ Ids' = Ids
  BY <1>3, Facts, SameSessions, SameTokens
<1>5. x \in RequestType /\ Sound(x)'
  BY <1>2, <1>4, Facts DEF RequestType, Ops, Sound
<1>6. ~Owing(req[r]) /\ ~Owing(x)
  BY <1>2, <1>3 DEF Owing, Idle
<1> QED
  BY <1>3, <1>4, <1>5, <1>6, Facts, RequestMoves

LEMMA BearerExtendSafe == ASSUME IInv, NEW r \in Requests, BearerExtend(r)  PROVE IInv'
<1>1. /\ req[r].op = "bearer" /\ req' = [req EXCEPT ![r] = Idle]
      /\ sessions' = Become({req[r].id}, "live") /\ stale' \subseteq stale
      /\ UNCHANGED <<tokens, plucked, jar, limiter, ended, bounds>>
  BY DEF BearerExtend, At, End, Extended
<1>2. SessionsGrow /\ Ids' = Ids
  BY <1>1, Facts, BecomeGrows
<1>3. TokensGrow
  BY <1>1, Facts, SameTokens
<1>4. req' \in [Requests -> RequestType]
  BY <1>1, Facts
<1>5. \A q \in Requests : req'[q] = req[q] \/ RequestSafe(q)'
  BY <1>1, EndsSafely
<1>6. WindowCloses'
  BY <1>1, WindowStays DEF Owing, Idle
<1>7. /\ stale' \subseteq Ids' /\ plucked' \subseteq Ids' /\ jar' \in [session: Nat, csrf: Nat]
      /\ LimiterTyped' /\ started' \in Nat /\ faults' \in Nat
  BY <1>1, <1>2 DEF IInv, Typed, LimiterTyped, limiter, bounds
<1>8. ended' \subseteq Ids' /\ EndedIsOut'
  BY <1>1, <1>2, NothingEnds
<1>9. JarSafe'
  BY <1>1, <1>2, <1>3, Grown
<1> QED
  BY <1>2, <1>3, <1>4, <1>5, <1>6, <1>7, <1>8, <1>9, Together

LEMMA RevokeDerivedSafe == ASSUME IInv, NEW r \in Requests, RevokeDerived(r)  PROVE IInv'
<1>1. PICK id \in Ids : Identity(id) /\ Start(r, "revoke", id, 0) /\ DeleteRows(Derived(id))
  BY DEF RevokeDerived
<1>2. PICK x : x = [op |-> "revoke", id |-> id, tok |-> 0]
  OBVIOUS
<1>3. /\ req[r] = Idle /\ req' = [req EXCEPT ![r] = x] /\ started' = started + 1
      /\ sessions' = Gone(Derived(id)) /\ tokens' = TokensGone(Derived(id))
      /\ UNCHANGED <<stale, plucked, jar, limiter, ended, faults>>
  BY <1>1, <1>2 DEF RevokeDerived, Start, DeleteRows
<1>4. SessionsGrow /\ Ids' = Ids
  BY <1>3, Facts, GoneGrows
<1>5. TokensGrow
  BY <1>3, Facts, TokensGoneGrow
<1>6. Identity(id)'
  BY <1>1, <1>4 DEF Identity, SessionsGrow, Keeps
<1>7. x \in RequestType /\ Sound(x)'
  BY <1>2, <1>6, Facts DEF RequestType, Ops, Sound
<1>8. ~Owing(req[r]) /\ ~Owing(x)
  BY <1>2, <1>3 DEF Owing, Idle
<1> QED
  BY <1>3, <1>4, <1>5, <1>7, <1>8, Facts, RequestMoves

\* An identity ends when nothing derived from it is left, and nothing can be derived from
\* it any more.
LEMMA RevokeIdentitySafe == ASSUME IInv, NEW r \in Requests, RevokeIdentity(r)  PROVE IInv'
<1>1. PICK id : id = req[r].id
  OBVIOUS
<1>2. /\ req[r].op = "revoke" /\ req' = [req EXCEPT ![r] = Idle]
      /\ IF Restricted({id}) THEN UNCHANGED <<sessions, tokens, ended>>
         ELSE sessions' = Gone({id}) /\ tokens' = TokensGone({id}) /\ ended' = ended \cup {id}
      /\ UNCHANGED <<stale, plucked, jar, limiter, bounds>>
  BY <1>1 DEF RevokeIdentity, At, End, DeleteRows
<1>3. Identity(id) /\ id \in Ids
  BY <1>1, <1>2 DEF IInv, RequestSafe, Sound, Identity
<1>4. CASE Restricted({id})
  <2>1. SessionsGrow /\ TokensGrow
    BY <1>2, <1>4, Facts, SameSessions, SameTokens
  <2>2. Sound(Idle)'
    BY DEF Sound, Idle
  <2>3. ~Owing(req[r]) /\ ~Owing(Idle)
    BY <1>2 DEF Owing, Idle
  <2> QED
    BY <1>2, <1>4, <2>1, <2>2, <2>3, Facts, RequestMoves DEF bounds
<1>5. CASE ~Restricted({id})
  <2>1. sessions' = Gone({id}) /\ tokens' = TokensGone({id}) /\ ended' = ended \cup {id}
    BY <1>2, <1>5
  <2>2. SessionsGrow /\ TokensGrow /\ Ids' = Ids /\ sessions'[id].state = "gone"
    BY <1>3, <2>1, Facts, GoneGrows, TokensGoneGrow
  <2>3. ASSUME NEW c \in Ids, sessions[c].from = id  PROVE sessions[c].state = "gone"
    <3>1. ~Present(c)
      BY <1>5, <2>3 DEF Restricted, Derived, IInv, RowSafe
    <3>2. sessions[c] \in RowType
      BY Facts, IdsAreNumbers
    <3> QED
      BY <3>1, <3>2 DEF Present, Live, Expired, RowType
  <2>4. \A c \in Ids : Keeps(c)
    BY <2>2 DEF SessionsGrow
  <2>5. PICK X : X = {id}
    OBVIOUS
  <2>6. \A c \in Ids' : c \in X \/ sessions'[c].from \in X => sessions'[c].state = "gone"
    BY <2>2, <2>3, <2>4, <2>5 DEF Keeps
  <2>7. X \in SUBSET Ids /\ ended' = ended \cup X
    BY <1>3, <2>1, <2>5
  <2>8. ended' \subseteq Ids' /\ EndedIsOut'
    BY <2>2, <2>6, <2>7, EndedStay
  <2>9. req' \in [Requests -> RequestType]
    BY <1>2, Facts
  <2>10. \A q \in Requests : req'[q] = req[q] \/ RequestSafe(q)'
    BY <1>2, EndsSafely
  <2>11. WindowCloses'
    BY <1>2, WindowStays DEF Owing, Idle
  <2>12. /\ stale' \subseteq Ids' /\ plucked' \subseteq Ids' /\ jar' \in [session: Nat, csrf: Nat]
         /\ LimiterTyped' /\ started' \in Nat /\ faults' \in Nat
    BY <1>2, <2>2 DEF IInv, Typed, LimiterTyped, limiter, bounds
  <2>13. JarSafe'
    BY <1>2, <2>2, Grown
  <2> QED
    BY <2>2, <2>8, <2>9, <2>10, <2>11, <2>12, <2>13, Together
<1> QED
  BY <1>4, <1>5

-----------------------------------------------------------------------------
(* The rate limit.                                                          *)

\* A step that leaves the tables and the jar alone.
LEMMA LimiterMoves ==
  ASSUME IInv, UNCHANGED <<sessions, tokens, stale, plucked, jar, ended>>,
         req' \in [Requests -> RequestType],
         \A q \in Requests : req'[q] = req[q] \/ RequestSafe(q)',
         LimiterTyped', started' \in Nat, faults' \in Nat, WindowCloses'
  PROVE  IInv'
<1>1. SessionsGrow /\ TokensGrow /\ Ids' = Ids
  BY Facts, SameSessions, SameTokens
<1>2. stale' \subseteq Ids' /\ plucked' \subseteq Ids' /\ jar' \in [session: Nat, csrf: Nat]
  BY <1>1 DEF IInv, Typed
<1>3. ended' \subseteq Ids' /\ EndedIsOut'
  BY <1>1, NothingEnds
<1>4. JarSafe'
  BY <1>1, Grown
<1> QED
  BY <1>1, <1>2, <1>3, <1>4, Together

\* A bootstrap goes on from one step to another.
LEMMA BootstrapMoves ==
  ASSUME IInv, NEW r \in Requests, NEW x \in RequestType, req' = [req EXCEPT ![r] = x],
         Sound(x)', UNCHANGED <<sessions, tokens, stale, plucked, jar, ended>>,
         LimiterTyped', WindowCloses', UNCHANGED started, faults' \in Nat
  PROVE  IInv'
<1>1. req \in [Requests -> RequestType] /\ started \in Nat
  BY DEF IInv, Typed
<1>2. req' \in [Requests -> RequestType] /\ req'[r] = x
      /\ \A q \in Requests : q # r => req'[q] = req[q]
  BY <1>1
<1>3. RequestSafe(r)'
  BY <1>2 DEF RequestSafe, Sound
<1> QED
  BY <1>1, <1>2, <1>3, LimiterMoves

LEMMA BootstrapSafe == ASSUME IInv, NEW r \in Requests, Bootstrap(r)  PROVE IInv'
<1>1. PICK x : x = [op |-> "boot.limit", id |-> 0, tok |-> 0]
  OBVIOUS
<1>2. /\ req[r] = Idle /\ req' = [req EXCEPT ![r] = x] /\ started' = started + 1
      /\ UNCHANGED <<sessions, tokens, stale, plucked, jar, limiter, ended, faults>>
  BY <1>1 DEF Bootstrap, Start
<1>3. SessionsGrow /\ TokensGrow
  BY <1>2, Facts, SameSessions, SameTokens
<1>4. x \in RequestType /\ Sound(x)'
  BY <1>1 DEF RequestType, Ops, Sound
<1>5. ~Owing(req[r]) /\ ~Owing(x)
  BY <1>1, <1>2 DEF Owing, Idle
<1> QED
  BY <1>2, <1>3, <1>4, <1>5, Facts, RequestMoves

\* What the steps of a bootstrap know of the counter and of the rows they have read.
LEMMA LimiterFacts ==
  ASSUME IInv
  PROVE  /\ hits \in Nat /\ ttl \in BOOLEAN /\ torn \in BOOLEAN /\ (ttl => hits > 0)
         /\ faults \in Nat /\ Limit \in Nat /\ Limit > 0 /\ WindowCloses
BY SessionsAssumption DEF SessionsAssumption, IInv, Typed, LimiterTyped

LEMMA HitCounts ==
  ASSUME IInv, NEW n \in {1, 2}, Hit(n)
  PROVE  hits' \in Nat /\ hits' > 0
BY LimiterFacts DEF Hit

\* The identity a request has read is there when it proceeds.
LEMMA Proceeds ==
  ASSUME IInv, NEW r \in Requests, UNCHANGED <<sessions, tokens>>, NEW x,
         \/ x = Idle
         \/ /\ req[r].op \in {"boot.limit", "boot.ttl"}
            /\ \E op \in {"boot.ttl", "boot.auth"} : x = [op |-> op, id |-> req[r].id, tok |-> 0]
         \/ /\ req[r].op \in {"boot.count", "boot.window", "boot.find"}
            /\ \E op \in {"boot.window", "boot.find", "boot.expire"} :
                 x = [op |-> op, id |-> req[r].id, tok |-> 0]
         \/ \E id \in Accepted : x = [op |-> "boot.count", id |-> id, tok |-> 0]
  PROVE  x \in RequestType /\ Sound(x)'
<1>1. SessionsGrow /\ TokensGrow
  BY Facts, SameSessions, SameTokens
<1>2. x \in RequestType /\ Sound(x)
  <2>1. CASE x = Idle
    BY <2>1, Facts DEF Sound, Idle
  <2>2. ASSUME req[r].op \in {"boot.limit", "boot.ttl"}, NEW op \in {"boot.ttl", "boot.auth"},
               x = [op |-> op, id |-> req[r].id, tok |-> 0]
        PROVE  x \in RequestType /\ Sound(x)
    BY <2>2, Facts DEF Sound, RequestType, Ops
  <2>3. ASSUME req[r].op \in {"boot.count", "boot.window", "boot.find"},
               NEW op \in {"boot.window", "boot.find", "boot.expire"},
               x = [op |-> op, id |-> req[r].id, tok |-> 0]
        PROVE  x \in RequestType /\ Sound(x)
    <3>1. Identity(req[r].id)
      BY <2>3 DEF IInv, RequestSafe, Sound
    <3>2. req[r].id \in Nat
      BY Facts DEF RequestType
    <3> QED
      BY <2>3, <3>1, <3>2 DEF Sound, RequestType, Ops
  <2>4. ASSUME NEW id \in Accepted, x = [op |-> "boot.count", id |-> id, tok |-> 0]
        PROVE  x \in RequestType /\ Sound(x)
    <3>1. Identity(id) /\ id \in Nat
      BY Facts DEF Accepted, Devices
    <3> QED
      BY <2>4, <3>1 DEF Sound, RequestType, Ops
  <2> QED
    BY <2>1, <2>2, <2>3, <2>4
<1> QED
  BY <1>1, <1>2, Grown

\* Who finds no counter owes it a time to live; any other count changes nothing.
LEMMA BootstrapCountSafe ==
  ASSUME IInv, NEW r \in Requests, BootstrapCount(r)  PROVE IInv'
<1>1. /\ Counting(r) /\ Hit(1)
      /\ UNCHANGED <<sessions, tokens, stale, plucked, jar, ttl, torn, ended, started, faults>>
  BY DEF BootstrapCount, bounds
<1>2. PICK x : /\ req' = [req EXCEPT ![r] = x]
               /\ hits = 0 => Owing(x)
               /\ hits # 0 => ~Owing(x)
               /\ \/ x = Idle
                  \/ /\ req[r].op = "boot.limit"
                     /\ \E op \in {"boot.ttl", "boot.auth"} : x = [op |-> op, id |-> req[r].id, tok |-> 0]
                  \/ /\ req[r].op = "boot.count"
                     /\ \E op \in {"boot.window", "boot.find"} :
                          x = [op |-> op, id |-> req[r].id, tok |-> 0]
  <2>1. CASE hits + 1 > Limit
    <3>1. hits # 0 /\ req' = [req EXCEPT ![r] = Idle]
      BY <2>1, LimiterFacts DEF BootstrapCount, End
    <3> QED
      BY <3>1 DEF Owing, Idle
  <2>2. CASE ~(hits + 1 > Limit)
    <3>1. PICK op : op = IF hits = 0 THEN Window(req[r].op) ELSE Beyond(req[r].op)
      OBVIOUS
    <3>2. PICK x : x = [op |-> op, id |-> req[r].id, tok |-> 0]
      OBVIOUS
    <3>3. req' = [req EXCEPT ![r] = x]
      BY <2>2, <3>1, <3>2 DEF BootstrapCount, Proceed, Step, Opens
    <3>4. CASE req[r].op = "boot.limit"
      BY <3>1, <3>2, <3>3, <3>4 DEF Window, Beyond, Owing
    <3>5. CASE req[r].op = "boot.count"
      BY <3>1, <3>2, <3>3, <3>5 DEF Window, Beyond, Owing
    <3> QED
      BY <1>1, <3>4, <3>5 DEF Counting, At
  <2> QED
    BY <2>1, <2>2
<1>3. x \in RequestType /\ Sound(x)'
  BY <1>1, <1>2, Proceeds
<1>4. hits' \in Nat /\ hits' > 0
  BY <1>1, HitCounts
<1>5. LimiterTyped'
  BY <1>1, <1>4, LimiterFacts DEF LimiterTyped
<1>6. ~Owes(r)
  BY <1>1 DEF Counting, Owes, At
<1>7. WindowCloses'
  <2>1. CASE hits = 0
    <3>1. req' = [req EXCEPT ![r] = x] /\ Owing(x)
      BY <1>2, <2>1
    <3>2. ~torn /\ ~ttl /\ \A q \in Requests : ~Owes(q)
      BY <2>1, LimiterFacts DEF WindowCloses
    <3>3. Owes(r)' /\ \A q \in Requests : q # r => ~Owes(q)'
      BY <3>1, <3>2, Facts DEF Owes, At, Owing
    <3> QED
      BY <1>1, <1>4, <3>2, <3>3 DEF WindowCloses
  <2>2. CASE hits # 0
    <3>1. \A q \in Requests : Owes(q)' <=> Owes(q)
      BY <1>2, <1>6, <2>2, Owners
    <3>2. hits' > 0 <=> hits > 0
      BY <1>4, <2>2, LimiterFacts
    <3> QED
      BY <1>1, <3>1, <3>2, WindowKept
  <2> QED
    BY <2>1, <2>2
<1> QED
  BY <1>1, <1>2, <1>3, <1>5, <1>7, LimiterFacts, BootstrapMoves

LEMMA CountUnansweredSafe ==
  ASSUME IInv, NEW r \in Requests, CountUnanswered(r)  PROVE IInv'
<1>1. /\ Counting(r) /\ (Hit(1) \/ Hit(2)) /\ faults' = faults + 1
      /\ UNCHANGED <<sessions, tokens, stale, plucked, jar, ttl, ended, started>>
  BY DEF CountUnanswered, Fault
<1>2. hits = 0 => torn' = TRUE
  BY DEF CountUnanswered, Opens
<1>3. hits # 0 => torn' = torn
  <2>1. torn' = (torn \/ hits = 0)
    BY DEF CountUnanswered, Opens
  <2> QED
    BY <2>1, LimiterFacts
<1>4. PICK x : /\ req' = [req EXCEPT ![r] = x] /\ ~Owing(x)
               /\ \/ x = Idle
                  \/ /\ req[r].op = "boot.limit"
                     /\ x = [op |-> "boot.auth", id |-> req[r].id, tok |-> 0]
                  \/ /\ req[r].op = "boot.count"
                     /\ x = [op |-> "boot.find", id |-> req[r].id, tok |-> 0]
  <2>1. CASE req' = [req EXCEPT ![r] = Idle]
    BY <2>1 DEF Owing, Idle
  <2>2. CASE Proceed(r, Beyond(req[r].op))
    <3>1. PICK x : x = [op |-> Beyond(req[r].op), id |-> req[r].id, tok |-> 0]
      OBVIOUS
    <3>2. req' = [req EXCEPT ![r] = x]
      BY <2>2, <3>1 DEF Proceed, Step
    <3>3. CASE req[r].op = "boot.limit"
      BY <3>1, <3>2, <3>3 DEF Beyond, Owing
    <3>4. CASE req[r].op = "boot.count"
      BY <3>1, <3>2, <3>4 DEF Beyond, Owing
    <3> QED
      BY <1>1, <3>3, <3>4 DEF Counting, At
  <2> QED
    BY <2>1, <2>2 DEF CountUnanswered, End
<1>5. x \in RequestType /\ Sound(x)'
  BY <1>1, <1>4, Proceeds
<1>6. hits' \in Nat /\ hits' > 0
  BY <1>1, HitCounts
<1>7. LimiterTyped'
  BY <1>1, <1>2, <1>3, <1>6, LimiterFacts DEF LimiterTyped
<1>8. \A q \in Requests : Owes(q)' <=> Owes(q)
  <2>1. ~Owes(r)
    BY <1>1 DEF Counting, Owes, At
  <2> QED
    BY <1>4, <2>1, Owners
<1>9. WindowCloses'
  <2>1. CASE hits = 0
    <3>1. ~ttl /\ \A q \in Requests : ~Owes(q)
      BY <2>1, LimiterFacts DEF WindowCloses
    <3> QED
      BY <1>1, <1>2, <1>6, <1>8, <2>1, <3>1 DEF WindowCloses
  <2>2. CASE hits # 0
    <3>1. hits' > 0 <=> hits > 0
      BY <1>6, <2>2, LimiterFacts
    <3> QED
      BY <1>1, <1>3, <1>8, <2>2, <3>1, WindowKept
  <2> QED
    BY <2>1, <2>2
<1>10. faults' \in Nat
  BY <1>1, LimiterFacts
<1> QED
  BY <1>1, <1>4, <1>5, <1>7, <1>9, <1>10, BootstrapMoves

\* Its EXPIRE is made or not; nobody else owes one.
LEMMA BootstrapWindowSafe == ASSUME IInv, NEW r \in Requests, BootstrapWindow(r)  PROVE IInv'
<1>1. /\ Owes(r) /\ hits' = hits
      /\ UNCHANGED <<sessions, tokens, stale, plucked, jar, ended, started>>
      /\ \/ ttl' = (hits > 0) /\ UNCHANGED <<torn, faults>>
         \/ torn' = TRUE /\ ttl' = ttl /\ faults' = faults + 1
  BY DEF BootstrapWindow, Fault, bounds
<1>2. hits > 0 /\ ~ttl /\ ~torn /\ \A q \in Requests : Owes(q) => q = r
  BY <1>1, LimiterFacts DEF WindowCloses
<1>3. PICK x : /\ req' = [req EXCEPT ![r] = x] /\ ~Owing(x)
               /\ \/ /\ req[r].op = "boot.ttl"
                     /\ x = [op |-> "boot.auth", id |-> req[r].id, tok |-> 0]
                  \/ /\ req[r].op = "boot.window"
                     /\ x = [op |-> "boot.find", id |-> req[r].id, tok |-> 0]
  <2>1. PICK x : x = [op |-> Beyond(req[r].op), id |-> req[r].id, tok |-> 0]
    OBVIOUS
  <2>2. req' = [req EXCEPT ![r] = x]
    BY <2>1 DEF BootstrapWindow, Proceed, Step
  <2>3. CASE req[r].op = "boot.ttl"
    BY <2>1, <2>2, <2>3 DEF Beyond, Owing
  <2>4. CASE req[r].op = "boot.window"
    BY <2>1, <2>2, <2>4 DEF Beyond, Owing
  <2> QED
    BY <1>1, <2>3, <2>4 DEF Owes, At
<1>4. x \in RequestType /\ Sound(x)'
  BY <1>1, <1>3, Proceeds
<1>5. \A q \in Requests : ~Owes(q)'
  BY <1>2, <1>3, Owners
<1>6. \/ ttl' = TRUE /\ torn' = torn /\ faults' = faults
      \/ torn' = TRUE /\ ttl' = ttl /\ faults' = faults + 1
  BY <1>1, <1>2
<1>7. LimiterTyped' /\ faults' \in Nat
  <2>1. hits' \in Nat /\ hits' > 0 /\ faults' \in Nat
    BY <1>1, <1>2, <1>6, LimiterFacts
  <2>2. ttl' \in BOOLEAN /\ torn' \in BOOLEAN
    <3>1. (ttl' = TRUE \/ ttl' = ttl) /\ (torn' = TRUE \/ torn' = torn)
      BY <1>6
    <3>2. ttl \in BOOLEAN /\ torn \in BOOLEAN
      BY LimiterFacts
    <3> QED
      BY <3>1, <3>2, Zenon
  <2> QED
    BY <2>1, <2>2 DEF LimiterTyped
<1>8. WindowCloses'
  BY <1>1, <1>2, <1>5, <1>6 DEF WindowCloses
<1> QED
  BY <1>1, <1>3, <1>4, <1>7, <1>8, BootstrapMoves

\* The steps that leave the counter alone.
LEMMA BootstrapReadsSafe ==
  ASSUME IInv, NEW r \in Requests, BootstrapAuth(r) \/ BootstrapIdentity(r)  PROVE IInv'
<1>1. UNCHANGED <<sessions, tokens, stale, plucked, jar, limiter, ended, started, faults>>
  BY DEF BootstrapAuth, BootstrapIdentity, bounds
<1>2. PICK x : /\ req' = [req EXCEPT ![r] = x] /\ ~Owing(x)
               /\ \/ x = Idle
                  \/ /\ req[r].op = "boot.find"
                     /\ x = [op |-> "boot.expire", id |-> req[r].id, tok |-> 0]
                  \/ \E id \in Accepted : x = [op |-> "boot.count", id |-> id, tok |-> 0]
  <2>1. CASE End(r)
    BY <2>1 DEF End, Owing, Idle
  <2>2. ASSUME NEW id \in Accepted, Step(r, "boot.count", id, 0)
        PROVE  \E x : /\ req' = [req EXCEPT ![r] = x] /\ ~Owing(x)
                       /\ x = [op |-> "boot.count", id |-> id, tok |-> 0]
    BY <2>2 DEF Step, Owing
  <2>3. ASSUME At(r, "boot.find"), Proceed(r, "boot.expire")
        PROVE  \E x : /\ req' = [req EXCEPT ![r] = x] /\ ~Owing(x)
                       /\ req[r].op = "boot.find"
                       /\ x = [op |-> "boot.expire", id |-> req[r].id, tok |-> 0]
    BY <2>3 DEF At, Proceed, Step, Owing
  <2> QED
    BY <2>1, <2>2, <2>3 DEF BootstrapAuth, BootstrapIdentity
<1>3. x \in RequestType /\ Sound(x)'
  BY <1>1, <1>2, Proceeds
<1>4. ~Owing(req[r])
  BY DEF BootstrapAuth, BootstrapIdentity, At, Owing
<1>5. WindowCloses'
  BY <1>1, <1>2, <1>4, WindowStays
<1>6. LimiterTyped' /\ faults' \in Nat
  BY <1>1, LimiterFacts DEF LimiterTyped, limiter
<1> QED
  BY <1>1, <1>2, <1>3, <1>5, <1>6, BootstrapMoves

LEMMA WindowEndsSafe == ASSUME IInv, WindowEnds  PROVE IInv'
<1>1. /\ ttl /\ hits' = 0 /\ ttl' = FALSE
      /\ UNCHANGED <<sessions, tokens, stale, plucked, jar, req, torn, ended, bounds>>
  BY DEF WindowEnds
<1>2. started \in Nat /\ faults \in Nat /\ req \in [Requests -> RequestType]
  BY DEF IInv, Typed
<1>3. ~torn /\ \A q \in Requests : ~Owes(q)
  BY <1>1, LimiterFacts DEF WindowCloses
<1>4. \A q \in Requests : ~Owes(q)'
  BY <1>1, <1>3 DEF Owes, At
<1>5. WindowCloses'
  BY <1>1, <1>3, <1>4 DEF WindowCloses
<1>6. LimiterTyped'
  BY <1>1, LimiterFacts DEF LimiterTyped
<1> QED
  BY <1>1, <1>2, <1>5, <1>6, LimiterMoves DEF bounds

LEMMA LostSafe == ASSUME IInv, NEW r \in Requests, Lost(r)  PROVE IInv'
<1>1. /\ faults' = faults + 1 /\ req' = [req EXCEPT ![r] = Idle]
      /\ torn' = (torn \/ Owes(r))
      /\ UNCHANGED <<sessions, tokens, stale, plucked, jar, hits, ttl, ended, started>>
  BY DEF Lost, End, Fault
<1>2. Idle \in RequestType /\ Sound(Idle)'
  BY <1>1, Proceeds
<1>3. \A q \in Requests : Owes(q)' <=> q # r /\ Owes(q)
  BY <1>1, Owners DEF Owing, Idle
<1>4. (Owes(r) => torn' = TRUE) /\ (~Owes(r) => torn' = torn)
  BY <1>1, LimiterFacts
<1>5. WindowCloses'
  <2>1. CASE Owes(r)
    <3>1. hits > 0 /\ ~ttl /\ \A q \in Requests : ~Owes(q)'
      BY <1>3, <2>1, LimiterFacts DEF WindowCloses
    <3> QED
      BY <1>1, <1>4, <2>1, <3>1 DEF WindowCloses
  <2>2. CASE ~Owes(r)
    BY <1>1, <1>3, <1>4, <2>2, WindowKept
  <2> QED
    BY <2>1, <2>2
<1>6. LimiterTyped' /\ faults' \in Nat
  BY <1>1, <1>4, LimiterFacts DEF LimiterTyped
<1> QED
  BY <1>1, <1>2, <1>5, <1>6, BootstrapMoves

-----------------------------------------------------------------------------
(* The other ways a session ends, the workers and time.                     *)

\* Rows are deleted by a statement that no request waits for.
LEMMA RowsEnd ==
  ASSUME IInv, NEW S \in SUBSET Ids, NEW X \in SUBSET Ids, DeleteRows(S), ended' = ended \cup X,
         \A id \in Ids' : id \in X \/ sessions'[id].from \in X => sessions'[id].state = "gone",
         started' \in Nat, UNCHANGED <<stale, plucked, jar, req, limiter, faults>>
  PROVE  IInv'
<1>1. SessionsGrow /\ TokensGrow /\ Ids' = Ids
  BY Facts, GoneGrows, TokensGoneGrow DEF DeleteRows
<1>2. ended' \subseteq Ids' /\ EndedIsOut'
  BY <1>1, EndedStay
<1>3. WindowCloses'
  BY WindowKept DEF Owes, At, limiter
<1>4. /\ stale' \subseteq Ids' /\ plucked' \subseteq Ids' /\ jar' \in [session: Nat, csrf: Nat]
      /\ req' \in [Requests -> RequestType]
      /\ LimiterTyped' /\ faults' \in Nat
  BY <1>1 DEF IInv, Typed, LimiterTyped, limiter
<1>5. JarSafe' /\ \A q \in Requests : req'[q] = req[q]
  BY <1>1, Grown
<1> QED
  BY <1>1, <1>2, <1>3, <1>4, <1>5, Together

LEMMA EndSessionSafe == ASSUME IInv, NEW id \in Ids, ~Identity(id), EndSession(id)  PROVE IInv'
<1>1. /\ started' = started + 1 /\ DeleteRows({id}) /\ ended' = ended \cup {id}
      /\ UNCHANGED <<stale, plucked, jar, req, limiter, faults>>
  BY DEF EndSession
<1>2. PICK X : X = {id}
  OBVIOUS
<1>3. SessionsGrow /\ Ids' = Ids /\ sessions'[id].state = "gone"
  BY <1>1, Facts, GoneGrows DEF DeleteRows
<1>4. \A c \in Ids : sessions'[c].from # id
  <2>1. \A c \in Ids : sessions'[c].from = sessions[c].from /\ RowSafe(c)
    BY <1>3 DEF SessionsGrow, Keeps, IInv
  <2> QED
    BY <2>1, Facts DEF RowSafe
<1>5. \A c \in Ids' : c \in X \/ sessions'[c].from \in X => sessions'[c].state = "gone"
  BY <1>2, <1>3, <1>4
<1> QED
  BY <1>1, <1>2, <1>5, Facts, RowsEnd

LEMMA ChangePasswordSafe == ASSUME IInv, ChangePassword  PROVE IInv'
<1>1. PICK X : X = {id \in Ids : Present(id)}
  OBVIOUS
<1>2. /\ started' = started + 1 /\ DeleteRows(Ids) /\ ended' = ended \cup X
      /\ UNCHANGED <<stale, plucked, jar, req, limiter, faults>>
  BY <1>1 DEF ChangePassword
<1>3. Ids' = Ids /\ \A id \in Ids : sessions'[id].state = "gone"
  BY <1>2, Facts, GoneGrows DEF DeleteRows
<1>4. /\ X \in SUBSET Ids /\ Ids \in SUBSET Ids /\ started' \in Nat
      /\ \A id \in Ids' : id \in X \/ sessions'[id].from \in X => sessions'[id].state = "gone"
  BY <1>1, <1>2, <1>3, Facts
<1> QED
  BY <1>2, <1>4, RowsEnd

LEMMA CleanSessionsSafe == ASSUME IInv, CleanSessions  PROVE IInv'
<1>1. DeleteRows(AllExpired) /\ UNCHANGED <<stale, plucked, jar, req, limiter, ended, bounds>>
  BY DEF CleanSessions
<1>2. PICK X : X = {}
  OBVIOUS
<1>3. /\ X \in SUBSET Ids /\ AllExpired \in SUBSET Ids /\ ended' = ended \cup X
      /\ \A id \in Ids' : id \in X \/ sessions'[id].from \in X => sessions'[id].state = "gone"
  BY <1>1, <1>2 DEF AllExpired
<1> QED
  BY <1>1, <1>3, Facts, RowsEnd DEF bounds

LEMMA ExpireSafe ==
  ASSUME IInv, NEW S, sessions' = Become(S, "expired"), stale' \subseteq stale,
         plucked' \subseteq plucked, UNCHANGED <<tokens, jar, req, limiter, ended, bounds>>
  PROVE  IInv'
<1>1. SessionsGrow /\ Ids' = Ids /\ TokensGrow
  BY Facts, BecomeGrows, SameTokens
<1>2. stale' \subseteq Ids' /\ plucked' \subseteq Ids'
  BY <1>1 DEF IInv, Typed
<1> QED
  BY <1>1, <1>2, TablesMove

LEMMA StaleMoves ==
  ASSUME IInv, stale' \subseteq Ids, plucked' \subseteq Ids,
         UNCHANGED <<sessions, tokens, jar, req, limiter, ended, bounds>>
  PROVE  IInv'
<1>1. SessionsGrow /\ Ids' = Ids /\ TokensGrow
  BY Facts, SameSessions, SameTokens
<1> QED
  BY <1>1, TablesMove

LEMMA TokensExpire ==
  ASSUME IInv, NEW x \in {"expired", "gone"}, NEW T \in SUBSET Toks,
         tokens' = [t \in Toks |-> IF t \in T THEN [tokens[t] EXCEPT !.state = x] ELSE tokens[t]],
         UNCHANGED <<sessions, stale, plucked, jar, req, limiter, ended, bounds>>
  PROVE  IInv'
<1> DEFINE f == [t \in Toks |-> x]
<1>1. f \in [Toks -> {"live", "expired", "gone"}]
  OBVIOUS
<1>2. tokens' = [t \in Toks |-> IF t \in T THEN [tokens[t] EXCEPT !.state = f[t]] ELSE tokens[t]]
  OBVIOUS
<1> HIDE DEF f
<1>3. TokensGrow
  BY <1>1, <1>2, Facts, TokensMove
<1>4. SessionsGrow /\ Ids' = Ids
  BY Facts, SameSessions
<1>5. stale' \subseteq Ids' /\ plucked' \subseteq Ids'
  BY <1>4 DEF IInv, Typed
<1> QED
  BY <1>3, <1>4, <1>5, TablesMove

LEMMA BrowserSafe == ASSUME IInv, NEW r \in Requests, Browser(r)  PROVE IInv'
BY LoginSessionSafe, LoginTokenSafe, LoginAnswerSafe, LogoutTokensSafe, LogoutSessionSafe,
   AskRefreshSafe, RefreshSafe, RefreshAnswerSafe DEF Browser

LEMMA DeviceSafe == ASSUME IInv, NEW r \in Requests, Device(r)  PROVE IInv'
BY DeviceLoginSafe, DeviceIdentitySafe, DeriveSessionSafe, BootstrapSafe, BootstrapCountSafe,
   CountUnansweredSafe, BootstrapWindowSafe, BootstrapReadsSafe, BootstrapExpireSafe, BearerSafe, BearerExtendSafe, RevokeDerivedSafe,
   RevokeIdentitySafe DEF Device

LEMMA WorkersSafe ==
  ASSUME IInv, \/ \E id \in Ids : Expire(id) \/ HeartbeatLapses(id)
               \/ \E t \in DOMAIN tokens : ExpireToken(t)
               \/ PluckStale \/ ExpireStale \/ Cleanup
  PROVE  IInv'
<1>1. ASSUME NEW id \in Ids, Expire(id)  PROVE IInv'
  BY <1>1, ExpireSafe DEF Expire
<1>2. ASSUME NEW id \in Ids, HeartbeatLapses(id)  PROVE IInv'
  <2>1. stale' \subseteq Ids /\ plucked' \subseteq Ids
    BY <1>2 DEF HeartbeatLapses, IInv, Typed
  <2> QED
    BY <1>2, <2>1, StaleMoves DEF HeartbeatLapses
<1>3. ASSUME NEW t \in DOMAIN tokens, ExpireToken(t)  PROVE IInv'
  <2>1. tokens \in [Toks -> TokenType] /\ t \in Toks
    BY Facts, IdsAreNumbers DEF Toks
  <2>2. tokens' = [u \in Toks |-> IF u \in {t} THEN [tokens[u] EXCEPT !.state = "expired"] ELSE tokens[u]]
    BY <1>3, <2>1 DEF ExpireToken
  <2>3. PICK T : T = {t}
    OBVIOUS
  <2>4. T \in SUBSET Toks
        /\ tokens' = [u \in Toks |-> IF u \in T THEN [tokens[u] EXCEPT !.state = "expired"] ELSE tokens[u]]
    BY <2>1, <2>2, <2>3
  <2> QED
    BY <1>3, <2>4, TokensExpire DEF ExpireToken
<1>4. ASSUME PluckStale  PROVE IInv'
  <2>1. stale' \subseteq Ids /\ plucked' \subseteq Ids
    BY <1>4 DEF PluckStale, IInv, Typed
  <2> QED
    BY <1>4, <2>1, StaleMoves DEF PluckStale
<1>5. ASSUME ExpireStale  PROVE IInv'
  BY <1>5, ExpireSafe DEF ExpireStale
<1>6. ASSUME CleanTokens  PROVE IInv'
  <2>1. PICK T : T = {t \in Toks : tokens[t].state = "expired"}
    OBVIOUS
  <2>2. T \in SUBSET Toks
        /\ tokens' = [t \in Toks |-> IF t \in T THEN [tokens[t] EXCEPT !.state = "gone"] ELSE tokens[t]]
    BY <1>6, <2>1 DEF CleanTokens, Toks
  <2> QED
    BY <1>6, <2>2, TokensExpire DEF CleanTokens
<1> QED
  BY <1>1, <1>2, <1>3, <1>4, <1>5, <1>6, CleanSessionsSafe DEF Cleanup

-----------------------------------------------------------------------------
(* The theorems.                                                            *)

LEMMA StartsSafe == Init => IInv
<1> SUFFICES ASSUME Init  PROVE IInv
  OBVIOUS
<1>1. Ids = {} /\ Toks = {}
  BY DEF Init, Ids, Toks
<1>2. Idle \in RequestType /\ Sound(Idle)
  BY DEF Idle, RequestType, Ops, Sound
<1>3. Typed
  <2>1. sessions \in Seq(RowType) /\ tokens \in Seq(TokenType)
    BY DEF Init
  <2>2. jar \in [session: Nat, csrf: Nat] /\ req \in [Requests -> RequestType]
    BY <1>2 DEF Init
  <2>3. stale = {} /\ plucked = {} /\ ended = {} /\ hits = 0 /\ ttl = FALSE /\ torn = FALSE
        /\ started = 0 /\ faults = 0
    BY DEF Init
  <2> QED
    BY <2>1, <2>2, <2>3 DEF Typed, LimiterTyped
<1>4. \A r \in Requests : RequestSafe(r)
  BY <1>2 DEF Init, RequestSafe
<1>5. JarSafe
  BY DEF Init, JarSafe
<1>6. EndedIsOut /\ WindowCloses
  BY <1>1 DEF Init, EndedIsOut, WindowCloses, Owes, At, Idle
<1> QED
  BY <1>1, <1>3, <1>4, <1>5, <1>6 DEF IInv

LEMMA StepsSafe == IInv /\ [Next]_vars => IInv'
<1> SUFFICES ASSUME IInv, [Next]_vars  PROVE IInv'
  OBVIOUS
<1>1. CASE \E r \in Requests : Browser(r) \/ Device(r) \/ Lost(r)
  BY <1>1, BrowserSafe, DeviceSafe, LostSafe
<1>2. CASE DropCookie \/ WindowEnds \/ ChangePassword
  BY <1>2, DropCookieSafe, WindowEndsSafe, ChangePasswordSafe
<1>3. CASE \E id \in Ids : RevokeSession(id) \/ DeviceShutdown(id)
  BY <1>3, EndSessionSafe DEF RevokeSession, DeviceShutdown, Identity
<1>4. CASE \/ \E id \in Ids : Expire(id) \/ HeartbeatLapses(id)
           \/ \E t \in DOMAIN tokens : ExpireToken(t)
           \/ PluckStale \/ ExpireStale \/ Cleanup
  BY <1>4, WorkersSafe
<1>5. CASE UNCHANGED vars
  BY <1>5, StaleMoves DEF vars, IInv, Typed
<1> QED
  BY <1>1, <1>2, <1>3, <1>4, <1>5 DEF Next

\* The inductive invariant.
THEOREM InductiveInvariant == Spec => []IInv
BY StartsSafe, StepsSafe, PTL DEF Spec

\* The tables keep their shape: a row's parent is an older row of the table, a token's
\* session one that was created before it, and the cookies name rows that were created.
THEOREM TypeCorrect == Spec => []TypeOK
<1>1. IInv => TypeOK
  <2> SUFFICES ASSUME IInv  PROVE TypeOK
    OBVIOUS
  <2>1. sessions \in [Ids -> RowType] /\ tokens \in [Toks -> TokenType] /\ Ids \subseteq Nat
    BY Facts, IdsAreNumbers
  <2>2. \A id \in Ids : /\ sessions[id].kind \in {"web", "identity", "device"}
                        /\ sessions[id].state \in {"live", "expired", "gone"}
    BY <2>1 DEF RowType
  <2>3. ASSUME NEW id \in Ids  PROVE sessions[id].parent \in 0..(id - 1)
    <3>1. RowSafe(id) /\ sessions[id].parent \in Nat /\ id \in Nat /\ id # 0
      BY <2>1, Facts DEF IInv, RowType
    <3>2. sessions[id].parent = 0 \/ sessions[id].parent < id
      BY <3>1 DEF RowSafe
    <3> QED
      BY <3>1, <3>2
  <2>4. \A t \in DOMAIN tokens : /\ tokens[t].session \in Ids
                                 /\ tokens[t].state \in {"live", "expired", "gone", "replaced"}
    BY <2>1 DEF IInv, TokenSafe, TokenType, Toks
  <2>5. jar.session \in {0} \cup Ids /\ jar.csrf \in {0} \cup DOMAIN tokens
    BY DEF IInv, JarSafe, Web, Toks
  <2>6. stale \subseteq Ids /\ plucked \subseteq Ids /\ ended \subseteq Ids
        /\ hits \in Nat /\ ttl \in BOOLEAN /\ torn \in BOOLEAN
    BY DEF IInv, Typed, LimiterTyped
  <2> QED
    BY <2>2, <2>3, <2>4, <2>5, <2>6 DEF TypeOK
<1> QED
  BY <1>1, InductiveInvariant, PTL

\* What a logout, a revocation or a password change has ended stays ended, with what was
\* derived from it, whatever requests were under way.
THEOREM EndedStaysOut == Spec => []EndedIsOut
<1>1. IInv => EndedIsOut
  BY DEF IInv
<1> QED
  BY <1>1, InductiveInvariant, PTL

\* When every refresh has been answered, the browser's token was replaced only if
\* KeepTokens newer ones were made meanwhile.
THEOREM CookiesWork == Spec => []CookieWorks
<1>1. IInv => CookieWorks
  <2> SUFFICES ASSUME IInv, jar.csrf # 0, tokens[jar.csrf].session = jar.session,
                      tokens[jar.csrf].state = "replaced"
               PROVE  Cardinality({u \in DOMAIN tokens : u > jar.csrf /\ tokens[u].session = jar.session})
                        >= KeepTokens
    BY DEF CookieWorks
  <2>1. jar.csrf \in Toks
    BY DEF IInv, JarSafe
  <2>2. Cardinality(Newer(jar.csrf)) >= KeepTokens
    BY <2>1 DEF IInv, TokenSafe
  <2> QED
    BY <2>2 DEF Newer, Toks
<1> QED
  BY <1>1, InductiveInvariant, PTL

\* A counter of the rate limit stays without a time to live only if the one request that
\* was to set it, its EXPIRE or the answer to its INCR was lost.
THEOREM WindowsClose == Spec => []WindowCloses
<1>1. IInv => WindowCloses
  BY DEF IInv
<1> QED
  BY <1>1, InductiveInvariant, PTL

===============================================================================
