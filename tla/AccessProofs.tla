---------------------------- MODULE AccessProofs ----------------------------
(***************************************************************************)
(* Who acts as whom, for any addresses, grants, tokens and number of       *)
(* requests.                                                               *)
(*                                                                         *)
(* A request rests on the token it was admitted with until it is finished  *)
(* (Rests): that is what ties the owner it acts for to a sign-in.  Only a  *)
(* token minted from a key carries one (Keyless).                          *)
(***************************************************************************)
EXTENDS Access, TLAPS

Keyless == \A t \in Tok : token[t] # None /\ token[t].kind # "api"
                             => token[t].key = 0

Rests ==
    \A r \in Req : call[r] # None /\ call[r].route # "token" =>
        LET t == call[r].via IN
        /\ t \in Tok
        /\ token[t] # None
        /\ token[t].kind = call[r].kind
        /\ token[t].owner = call[r].owner

IInv == TypeOK /\ Keyless /\ Rests

\* What the steps are, by the part of the state they change.
LEMMA StepCases ==
    ASSUME [Next]_vars
    PROVE  \/ Issuing \/ Calling \/ Administering \/ CliRanges \/ CliEnds
           \/ \E s \in socket : SocketLeaves(s) \/ SocketExpires(s)
           \/ UNCHANGED vars
  BY DEF Next

-----------------------------------------------------------------------------
(***************************************************************************)
(* Types                                                                   *)
(***************************************************************************)

LEMMA IssueEffect ==
    ASSUME TypeOK, NEW t \in Tok, NEW kind \in Kind, NEW o \in Addr,
           NEW sub \in Addr, NEW key \in 0 .. MaxKeys,
           NEW scopes \in SUBSET Scope, NEW identities \in SUBSET Addr,
           Issue(t, kind, o, sub, key, scopes, identities)
    PROVE  /\ token' \in [Tok -> Token \cup {None}]
           /\ \A u \in Tok \ {t} : token'[u] = token[u]
           /\ token'[t].kind = kind
           /\ token'[t].key = key
  <1> DEFINE k == [kind |-> kind, owner |-> o, sub |-> sub, key |-> key,
                   scopes |-> scopes, identities |-> identities,
                   age |-> "valid"]
  <1>1. k \in Token /\ k.kind = kind /\ k.key = key
    BY DEF Token
  <1>2. token' = [token EXCEPT ![t] = k]
    BY DEF Issue
  <1> HIDE DEF k
  <1> QED BY <1>1, <1>2 DEF TypeOK

LEMMA AgesEffect ==
    ASSUME TypeOK, NEW t \in Tok, TokenAges(t)
    PROVE  /\ token' \in [Tok -> Token \cup {None}]
           /\ \A u \in Tok \ {t} : token'[u] = token[u]
           /\ token[t] # None /\ token'[t] # None
           /\ token'[t].kind = token[t].kind
           /\ token'[t].owner = token[t].owner
           /\ token'[t].key = token[t].key
  <1>1. token[t] \in Token
    BY DEF TypeOK, TokenAges
  <1> DEFINE k == [token[t] EXCEPT !.age = IF @ = "valid" THEN "leeway"
                                           ELSE "expired"]
  <1>2. /\ k \in Token /\ k.kind = token[t].kind /\ k.owner = token[t].owner
        /\ k.key = token[t].key
    BY <1>1 DEF Token
  <1>3. token' = [token EXCEPT ![t] = k]
    BY <1>1 DEF TokenAges, TypeOK, Token
  <1>4. token[t] # None /\ k # None
    BY <1>2, NoneAssumption DEF TokenAges
  <1> HIDE DEF k
  <1>5. /\ token' \in [Tok -> Token \cup {None}]
        /\ \A u \in Tok \ {t} : token'[u] = token[u]
        /\ token'[t] = k
    BY <1>2, <1>3 DEF TypeOK
  <1> QED BY <1>2, <1>4, <1>5

\* The tokens are typed, and only minting gives one a key.
LEMMA IssuingStep ==
    ASSUME TypeOK, Keyless, Issuing
    PROVE  TypeOK' /\ Keyless'
  <1> PICK t \in Tok : \/ \E o \in SignsIn : SignIn(t, o)
                       \/ \E d \in Delegable :
                            Delegate(t, d.owner, d.scopes, d.identities)
                       \/ TokenAges(t)
    BY DEF Issuing
  <1>0. MaxKeys \in Nat /\ 0 \in 0 .. MaxKeys /\ {} \in SUBSET Scope
        /\ {} \in SUBSET Addr /\ {"idp", "oauth"} \subseteq Kind
    BY AccessAssumption DEF Kind
  <1>1. ASSUME NEW o \in SignsIn, SignIn(t, o)
        PROVE  TypeOK' /\ Keyless'
    <2>1. o \in Addr
      BY AccessAssumption
    <2>2. Issue(t, "idp", o, o, 0, {}, {}) /\ UNCHANGED <<row, keys, call, cli, socket>>
      BY <1>1 DEF SignIn
    <2>3. /\ token' \in [Tok -> Token \cup {None}]
          /\ \A u \in Tok \ {t} : token'[u] = token[u]
          /\ token'[t].key = 0
      BY <1>0, <2>1, <2>2, IssueEffect
    <2> QED BY <2>2, <2>3 DEF TypeOK, Keyless
  <1>2. ASSUME NEW o \in Addr, NEW scopes \in SUBSET Scope,
               NEW identities \in SUBSET Addr,
               Delegate(t, o, scopes, identities)
        PROVE  TypeOK' /\ Keyless'
    <2>2. /\ Issue(t, "oauth", o, o, 0, scopes, identities)
          /\ UNCHANGED <<row, keys, call, cli, socket>>
      BY <1>2 DEF Delegate
    <2>3. /\ token' \in [Tok -> Token \cup {None}]
          /\ \A u \in Tok \ {t} : token'[u] = token[u]
          /\ token'[t].key = 0
      BY <1>0, <2>2, IssueEffect
    <2> QED BY <2>2, <2>3 DEF TypeOK, Keyless
  <1>3. ASSUME TokenAges(t)
        PROVE  TypeOK' /\ Keyless'
    <2>1. UNCHANGED <<row, keys, call, cli, socket>>
      BY <1>3 DEF TokenAges
    <2> QED BY <1>3, <2>1, AgesEffect DEF TypeOK, Keyless
  <1>4. \A d \in Delegable : /\ d.owner \in Addr
                              /\ d.scopes \in SUBSET Scope
                              /\ d.identities \in SUBSET Addr
    BY AccessAssumption
  <1> QED BY <1>1, <1>2, <1>3, <1>4

LEMMA AdmitEffect ==
    ASSUME TypeOK, NEW r \in Req, NEW t \in Tok, NEW actAs \in Addr \cup {None},
           NEW net \in Net, NEW route \in Route, Admit(r, t, actAs, net, route)
    PROVE  /\ call' \in [Req -> Call \cup {None}]
           /\ \A o \in Req \ {r} : call'[o] = call[o]
           /\ token[t] # None
           /\ call'[r].as \in Identity(t, actAs, net)
           /\ call'[r].owner = token[t].owner
           /\ call'[r].kind = token[t].kind
           /\ call'[r].key = token[t].key
           /\ call'[r].via = t
           /\ call'[r].route # "token"
           /\ UNCHANGED <<row, keys, token, cli, socket>>
  <1>1. token[t] # None /\ token[t] \in Token
    BY DEF Admit, TypeOK
  <1>2. PICK a \in Identity(t, actAs, net) :
          call' = [call EXCEPT ![r] =
                     [owner |-> token[t].owner, as |-> a,
                      kind |-> token[t].kind, route |-> route, via |-> t,
                      key |-> token[t].key]]
    BY DEF Admit
  <1> DEFINE c == [owner |-> token[t].owner, as |-> a, kind |-> token[t].kind,
                   route |-> route, via |-> t, key |-> token[t].key]
  <1>3. a \in Addr
    BY <1>1, <1>2 DEF Identity, Token
  <1>4. c \in Call
    BY <1>1, <1>3 DEF Call, Token
  <1>5. /\ c.as = a /\ c.owner = token[t].owner /\ c.kind = token[t].kind
        /\ c.key = token[t].key /\ c.via = t /\ c.route = route
    OBVIOUS
  <1>6. call' = [call EXCEPT ![r] = c]
    BY <1>2
  <1> HIDE DEF c
  <1>7. /\ call' \in [Req -> Call \cup {None}]
        /\ \A o \in Req \ {r} : call'[o] = call[o]
        /\ call'[r] = c
    BY <1>4, <1>6 DEF TypeOK
  <1>8. route # "token" /\ UNCHANGED <<row, keys, token, cli, socket>>
    BY DEF Admit
  <1> QED BY <1>1, <1>2, <1>5, <1>7, <1>8

LEMMA ExchangeEffect ==
    ASSUME TypeOK, NEW r \in Req, NEW p \in Grantable, NEW net \in Net,
           Exchange(r, p, net)
    PROVE  /\ call' \in [Req -> Call \cup {None}]
           /\ \A o \in Req \ {r} : call'[o] = call[o]
           /\ row[p] # None
           /\ p = <<call'[r].owner, call'[r].as>>
           /\ call'[r].key = row[p].key
           /\ call'[r].route = "token"
           /\ UNCHANGED <<row, keys, token, cli, socket>>
  <1>1. row[p] # None /\ row[p] \in Row
    BY DEF Exchange, TypeOK
  <1> DEFINE c == [owner |-> p[1], as |-> p[2], kind |-> "api",
                   route |-> "token", via |-> None, key |-> row[p].key]
  <1>2. p[1] \in Addr /\ p[2] \in Addr /\ p = <<p[1], p[2]>>
    BY AccessAssumption
  <1>3. row[p].key \in 0 .. MaxKeys
    BY <1>1, AccessAssumption DEF Row
  <1>4. c \in Call
    BY <1>2, <1>3 DEF Call, Kind, Route
  <1>5. c.owner = p[1] /\ c.as = p[2] /\ c.key = row[p].key /\ c.route = "token"
    OBVIOUS
  <1>6. call' = [call EXCEPT ![r] = c] /\ UNCHANGED <<row, keys, token, cli, socket>>
    BY DEF Exchange
  <1> HIDE DEF c
  <1>7. /\ call' \in [Req -> Call \cup {None}]
        /\ \A o \in Req \ {r} : call'[o] = call[o]
        /\ call'[r] = c
    BY <1>4, <1>6 DEF TypeOK
  <1> QED BY <1>1, <1>2, <1>5, <1>6, <1>7

LEMMA FinishEffect ==
    ASSUME TypeOK, NEW r \in Req, Finish(r)
    PROVE  /\ call' \in [Req -> Call \cup {None}]
           /\ call'[r] = None
           /\ \A o \in Req \ {r} : call'[o] = call[o]
  BY DEF Finish, TypeOK

LEMMA MintEffect ==
    ASSUME TypeOK, NEW r \in Req, NEW t \in Tok, Mint(r, t)
    PROVE  /\ token' \in [Tok -> Token \cup {None}]
           /\ \A u \in Tok \ {t} : token'[u] = token[u]
           /\ token'[t].kind = "api"
           /\ UNCHANGED <<row, keys, cli, socket>>
  <1>1. call[r] \in Call /\ "api" \in Kind
    BY DEF Mint, TypeOK, Kind
  <1>2. /\ call[r].owner \in Addr /\ call[r].as \in Addr
        /\ call[r].key \in 0 .. MaxKeys
    BY <1>1 DEF Call
  <1>3. /\ Issue(t, "api", call[r].owner, call[r].as, call[r].key, {}, {})
        /\ UNCHANGED <<row, keys, cli, socket>>
    BY DEF Mint
  <1> QED BY <1>1, <1>2, <1>3, IssueEffect

LEMMA CallingStep ==
    ASSUME TypeOK, Keyless, Rests, Calling
    PROVE  TypeOK' /\ Keyless'
  <1> PICK r \in Req :
        \/ \E t \in Tok, a \in Addr \cup {None}, net \in Net, route \in Route :
              Admit(r, t, a, net, route)
        \/ \E p \in Grantable, net \in Net : Exchange(r, p, net)
        \/ \E t \in Tok : Mint(r, t)
        \/ EndCall(r)
        \/ OpenSocket(r)
    BY DEF Calling
  <1>1. ASSUME NEW t \in Tok, NEW a \in Addr \cup {None}, NEW net \in Net,
               NEW route \in Route, Admit(r, t, a, net, route)
        PROVE  TypeOK' /\ Keyless'
    BY <1>1, AdmitEffect DEF TypeOK, Keyless
  <1>2. ASSUME NEW p \in Grantable, NEW net \in Net, Exchange(r, p, net)
        PROVE  TypeOK' /\ Keyless'
    BY <1>2, ExchangeEffect DEF TypeOK, Keyless
  <1>3. ASSUME NEW t \in Tok, Mint(r, t)
        PROVE  TypeOK' /\ Keyless'
    <2>1. call' \in [Req -> Call \cup {None}]
      BY <1>3, FinishEffect DEF Mint
    <2> QED BY <1>3, <2>1, MintEffect DEF TypeOK, Keyless
  <1>4. CASE EndCall(r)
    <2>1. call' \in [Req -> Call \cup {None}]
      BY <1>4, FinishEffect DEF EndCall
    <2> QED BY <1>4, <2>1 DEF EndCall, TypeOK, Keyless
  <1>5. CASE OpenSocket(r)
    <2>1. call' \in [Req -> Call \cup {None}]
      BY <1>5, FinishEffect DEF OpenSocket
    <2>2. call[r].via \in Tok /\ call[r].as \in Addr
      BY <1>5 DEF OpenSocket, Rests, TypeOK, Call
    <2> QED BY <1>5, <2>1, <2>2 DEF OpenSocket, TypeOK, Keyless
  <1> QED BY <1>1, <1>2, <1>3, <1>4, <1>5

LEMMA NewKeyEffect ==
    ASSUME TypeOK, NEW p \in Grantable, NEW nets \in Ranges, NewKey(p, nets)
    PROVE  /\ row' \in [Grantable -> Row \cup {None}]
           /\ keys' \in 0 .. MaxKeys
           /\ \A q \in Grantable \ {p} : row'[q] = row[q]
  <1> DEFINE k == [key |-> keys', nets |-> nets, live |-> TRUE]
  <1>1. keys' \in 1 .. MaxKeys /\ keys' \in 0 .. MaxKeys
    BY AccessAssumption DEF NewKey, TypeOK
  <1>2. k \in Row
    BY <1>1 DEF Row
  <1>3. row' = [row EXCEPT ![p] = k]
    BY DEF NewKey
  <1> HIDE DEF k
  <1> QED BY <1>1, <1>2, <1>3 DEF TypeOK

\* A request that administers the grant p changes that grant only, and ends.
Administered(r, p) ==
    /\ Administers(r, p)
    /\ row' \in [Grantable -> Row \cup {None}]
    /\ keys' \in 0 .. MaxKeys
    /\ \A q \in Grantable \ {p} : row'[q] = row[q]
    /\ Finish(r)
    /\ UNCHANGED <<token, cli, socket>>

\* Grants change by an administrator's request, or without any request.
LEMMA AdministeringEffect ==
    ASSUME TypeOK, Administering
    PROVE  \/ \E p \in Grantable, r \in Req : Administered(r, p)
           \/ /\ row' \in [Grantable -> Row \cup {None}]
              /\ keys' \in 0 .. MaxKeys
              /\ cli' \in [pair : Grantable, nets : Ranges] \cup {None}
              /\ UNCHANGED <<token, call, socket>>
  <1> DEFINE ByItself == /\ row' \in [Grantable -> Row \cup {None}]
                         /\ keys' \in 0 .. MaxKeys
                         /\ cli' \in [pair : Grantable, nets : Ranges] \cup {None}
                         /\ UNCHANGED <<token, call, socket>>
  <1> PICK p \in Grantable :
        \/ \E r \in Req, nets \in Ranges : \/ CreateGrant(r, p, nets)
                                          \/ UpdateCIDRs(r, p, nets)
        \/ \E r \in Req : RotateKey(r, p) \/ DeleteGrant(r, p)
        \/ \E nets \in Ranges : CliCreate(p, nets)
        \/ \E nets \in Ranges \cup {None} : CliRotate(p, nets)
        \/ KeyExpires(p)
    BY DEF Administering
  <1>0. /\ row \in [Grantable -> Row \cup {None}]
        /\ keys \in 0 .. MaxKeys
        /\ row[p] # None => row[p] \in Row /\ row[p].nets \in Ranges
    BY DEF TypeOK, Row
  <1>1. ASSUME NEW r \in Req, NEW nets \in Ranges, CreateGrant(r, p, nets)
        PROVE  Administered(r, p)
    BY <1>1, NewKeyEffect DEF CreateGrant, Administered
  <1>2. ASSUME NEW r \in Req, NEW nets \in Ranges, UpdateCIDRs(r, p, nets)
        PROVE  Administered(r, p)
    <2>1. [row[p] EXCEPT !.nets = nets] \in Row
      BY <1>0, <1>2 DEF UpdateCIDRs, Row
    <2>2. row' = [row EXCEPT ![p] = [row[p] EXCEPT !.nets = nets]]
      BY <1>2 DEF UpdateCIDRs
    <2> QED BY <1>0, <1>2, <2>1, <2>2 DEF UpdateCIDRs, Administered
  <1>3. ASSUME NEW r \in Req, RotateKey(r, p)
        PROVE  Administered(r, p)
    BY <1>0, <1>3, NewKeyEffect DEF RotateKey, Administered
  <1>4. ASSUME NEW r \in Req, DeleteGrant(r, p)
        PROVE  Administered(r, p)
    BY <1>0, <1>4 DEF DeleteGrant, Administered
  <1>5. ASSUME NEW nets \in Ranges, CliCreate(p, nets)
        PROVE  ByItself
    BY <1>5, NewKeyEffect DEF CliCreate, TypeOK
  <1>6. ASSUME NEW nets \in Ranges \cup {None}, CliRotate(p, nets)
        PROVE  ByItself
    <2>1. cli' \in [pair : Grantable, nets : Ranges] \cup {None}
      BY <1>6 DEF CliRotate
    <2>2. NewKey(p, row[p].nets) /\ row[p].nets \in Ranges
          /\ UNCHANGED <<token, call, socket>>
      BY <1>0, <1>6 DEF CliRotate
    <2> QED BY <2>1, <2>2, NewKeyEffect
  <1>7. ASSUME KeyExpires(p)
        PROVE  ByItself
    <2>1. [row[p] EXCEPT !.live = FALSE] \in Row
      BY <1>0, <1>7 DEF KeyExpires, Row
    <2>2. row' = [row EXCEPT ![p] = [row[p] EXCEPT !.live = FALSE]]
      BY <1>7 DEF KeyExpires
    <2> QED BY <1>0, <1>7, <2>1, <2>2 DEF KeyExpires, TypeOK
  <1> HIDE DEF ByItself
  <1>8. ByItself \/ \E r \in Req : Administered(r, p)
    BY <1>1, <1>2, <1>3, <1>4, <1>5, <1>6, <1>7
  <1> QED BY <1>8 DEF ByItself

LEMMA AdministeringStep ==
    ASSUME TypeOK, Keyless, Administering
    PROVE  TypeOK' /\ Keyless'
  <1>1. ASSUME NEW p \in Grantable, NEW r \in Req, Administered(r, p)
        PROVE  TypeOK' /\ Keyless'
    <2>1. call' \in [Req -> Call \cup {None}]
      BY <1>1, FinishEffect DEF Administered
    <2> QED BY <1>1, <2>1 DEF Administered, TypeOK, Keyless
  <1> QED BY <1>1, AdministeringEffect DEF TypeOK, Keyless

LEMMA OtherStep ==
    ASSUME TypeOK, \/ CliRanges \/ CliEnds
                   \/ \E s \in socket : SocketLeaves(s) \/ SocketExpires(s)
                   \/ UNCHANGED vars
    PROVE  TypeOK' /\ UNCHANGED <<token, call>>
  <1>1. CASE CliRanges
    <2>1. cli \in [pair : Grantable, nets : Ranges]
      BY <1>1 DEF CliRanges, TypeOK
    <2>2. cli.pair \in Grantable /\ cli.nets \in Ranges
      BY <2>1
    <2>3. row' \in [Grantable -> Row \cup {None}]
      <3>1. CASE row[cli.pair] = None
        BY <1>1, <3>1 DEF CliRanges, TypeOK
      <3>2. CASE row[cli.pair] # None
        <4>1. [row[cli.pair] EXCEPT !.nets = cli.nets] \in Row
          BY <2>2, <3>2 DEF TypeOK, Row
        <4>2. row' = [row EXCEPT ![cli.pair] =
                        [row[cli.pair] EXCEPT !.nets = cli.nets]]
          BY <1>1, <3>2 DEF CliRanges
        <4> QED BY <2>2, <4>1, <4>2 DEF TypeOK
      <3> QED BY <3>1, <3>2
    <2> QED BY <1>1, <2>3 DEF CliRanges, TypeOK
  <1>2. CASE CliEnds
    BY <1>2 DEF CliEnds, TypeOK
  <1>3. CASE \E s \in socket : SocketLeaves(s) \/ SocketExpires(s)
    BY <1>3 DEF SocketLeaves, SocketExpires, TypeOK
  <1>4. CASE UNCHANGED vars
    BY <1>4 DEF vars, TypeOK
  <1> QED BY <1>1, <1>2, <1>3, <1>4
-----------------------------------------------------------------------------
(***************************************************************************)
(* Requests rest on their tokens                                           *)
(***************************************************************************)

\* A token in use keeps its kind and owner: its slot is not issued again.
LEMMA IssueSpares ==
    ASSUME Rests, NEW t \in Tok, Unissued(t),
           \A u \in Tok \ {t} : token'[u] = token[u]
    PROVE  \A r \in Req : call[r] # None /\ call[r].route # "token"
                            => /\ call[r].via \in Tok
                               /\ token'[call[r].via] = token[call[r].via]
  BY DEF Rests, Unissued

LEMMA RestsStep == TypeOK /\ Rests /\ [Next]_vars => Rests'
  <1> SUFFICES ASSUME TypeOK, Rests, [Next]_vars,
                      NEW r \in Req, call'[r] # None, call'[r].route # "token"
               PROVE  /\ call'[r].via \in Tok
                      /\ token'[call'[r].via] # None
                      /\ token'[call'[r].via].kind = call'[r].kind
                      /\ token'[call'[r].via].owner = call'[r].owner
    BY DEF Rests
  <1> DEFINE Goal == /\ call'[r].via \in Tok
                     /\ token'[call'[r].via] # None
                     /\ token'[call'[r].via].kind = call'[r].kind
                     /\ token'[call'[r].via].owner = call'[r].owner
  <1>1. ASSUME Issuing PROVE Goal
    <2>1. call' = call
      BY <1>1 DEF Issuing, SignIn, Delegate, TokenAges
    <2>2. ASSUME NEW t \in Tok, TokenAges(t)
          PROVE  Goal
      <3>1. /\ \A u \in Tok \ {t} : token'[u] = token[u]
            /\ token'[t].kind = token[t].kind /\ token'[t].owner = token[t].owner
            /\ token'[t] # None
        BY <2>2, AgesEffect
      <3> QED BY <2>1, <3>1 DEF Rests
    <2>3. ASSUME NEW t \in Tok, Unissued(t),
                 \A u \in Tok \ {t} : token'[u] = token[u]
          PROVE  Goal
      BY <2>1, <2>3, IssueSpares DEF Rests
    <2>4. \E t \in Tok : \/ TokenAges(t)
                         \/ /\ Unissued(t)
                            /\ \A u \in Tok \ {t} : token'[u] = token[u]
      BY <1>1 DEF Issuing, SignIn, Delegate, Issue, TypeOK
    <2> QED BY <2>2, <2>3, <2>4
  <1>2. ASSUME token' = token, call'[r] = call[r]
        PROVE  Goal
    BY <1>2 DEF Rests
  <1>3. ASSUME Calling PROVE Goal
    <2> PICK x \in Req :
          \/ \E t \in Tok, a \in Addr \cup {None}, net \in Net, route \in Route :
                Admit(x, t, a, net, route)
          \/ \E p \in Grantable, net \in Net : Exchange(x, p, net)
          \/ \E t \in Tok : Mint(x, t)
          \/ EndCall(x)
          \/ OpenSocket(x)
      BY <1>3 DEF Calling
    <2>1. ASSUME NEW t \in Tok, NEW a \in Addr \cup {None}, NEW net \in Net,
                 NEW route \in Route, Admit(x, t, a, net, route)
          PROVE  Goal
      <3>1. CASE x = r
        BY <2>1, <3>1, AdmitEffect
      <3>2. CASE x # r
        BY <2>1, <3>2, <1>2, AdmitEffect
      <3> QED BY <3>1, <3>2
    <2>2. ASSUME NEW p \in Grantable, NEW net \in Net, Exchange(x, p, net)
          PROVE  Goal
      <3>1. x # r /\ token' = token /\ call'[r] = call[r]
        BY <2>2, ExchangeEffect
      <3> QED BY <3>1, <1>2
    <2>3. ASSUME NEW t \in Tok, Mint(x, t)
          PROVE  Goal
      <3>1. call'[r] = call[r]
        BY <2>3, FinishEffect DEF Mint
      <3>2. Unissued(t) /\ \A u \in Tok \ {t} : token'[u] = token[u]
        BY <2>3, MintEffect DEF Mint, Issue
      <3> QED BY <3>1, <3>2, IssueSpares DEF Rests
    <2>4. ASSUME EndCall(x) \/ OpenSocket(x)
          PROVE  Goal
      <3>1. token' = token /\ call'[r] = call[r]
        BY <2>4, FinishEffect DEF EndCall, OpenSocket
      <3> QED BY <3>1, <1>2
    <2> QED BY <2>1, <2>2, <2>3, <2>4
  <1>4. ASSUME Administering PROVE Goal
    <2>1. token' = token /\ call'[r] = call[r]
      BY <1>4, AdministeringEffect, FinishEffect DEF Administered
    <2> QED BY <2>1, <1>2
  <1>5. ASSUME CliRanges \/ CliEnds
                 \/ (\E s \in socket : SocketLeaves(s) \/ SocketExpires(s))
                 \/ UNCHANGED vars
        PROVE  Goal
    BY <1>5, <1>2, OtherStep
  <1> HIDE DEF Goal
  <1>6. Goal
    BY <1>1, <1>3, <1>4, <1>5, StepCases
  <1> QED BY <1>6 DEF Goal

LEMMA AccessInit == Init => IInv
  <1>1. MaxKeys \in Nat
    BY AccessAssumption
  <1> QED BY <1>1 DEF Init, IInv, TypeOK, Keyless, Rests

LEMMA AccessStep == IInv /\ [Next]_vars => IInv'
  <1> SUFFICES ASSUME IInv, [Next]_vars PROVE IInv'
    OBVIOUS
  <1> USE DEF IInv
  <1>1. Rests'
    BY RestsStep
  <1>2. ASSUME CliRanges \/ CliEnds
                 \/ (\E s \in socket : SocketLeaves(s) \/ SocketExpires(s))
                 \/ UNCHANGED vars
        PROVE  TypeOK' /\ Keyless'
    BY <1>2, OtherStep DEF Keyless
  <1>3. TypeOK' /\ Keyless'
    BY <1>2, IssuingStep, CallingStep, AdministeringStep, StepCases
  <1> QED BY <1>1, <1>3

\* Grants, tokens, requests and connections are as Access types them; in
\* particular a connection is opened with a token, never with a bare key.
THEOREM AccessTyped == Spec => []TypeOK
  <1>1. IInv => TypeOK
    BY DEF IInv
  <1> QED BY <1>1, AccessInit, AccessStep, PTL DEF Spec

-----------------------------------------------------------------------------
(***************************************************************************)
(* Acting and administering                                                *)
(***************************************************************************)

LEMMA Admits ==
    ASSUME IInv, NEW r \in Req, NEW t \in Tok, NEW actAs \in Addr \cup {None},
           NEW net \in Net, NEW route \in Route, Admit(r, t, actAs, net, route)
    PROVE  /\ call'[r].as = call'[r].owner
              \/ Granted(call'[r].owner, call'[r].as)
           /\ call'[r].key \notin Revoked
  <1>1. /\ token[t] # None
        /\ call'[r].as \in Identity(t, actAs, net)
        /\ call'[r].owner = token[t].owner
        /\ call'[r].key = token[t].key
    BY AdmitEffect DEF IInv
  <1>2. CASE token[t].kind = "api"
    <2>1. ValidateToken(token[t].key, token[t].owner, call'[r].as, net)
      BY <1>1, <1>2 DEF Identity
    <2>2. /\ Granted(token[t].owner, call'[r].as)
          /\ row[<<token[t].owner, call'[r].as>>].key = token[t].key
      BY <2>1 DEF ValidateToken
    <2> QED BY <1>1, <2>2 DEF Granted, Revoked
  <1>3. CASE token[t].kind # "api"
    <2>1. token[t].key = 0
      BY <1>1, <1>3 DEF IInv, Keyless
    <2>2. 0 \notin Revoked
      BY DEF Revoked, IInv, TypeOK
    <2>3. call'[r].as = token[t].owner \/ Granted(token[t].owner, call'[r].as)
      BY <1>1, <1>3 DEF Identity, ValidateActAs
    <2> QED BY <1>1, <2>1, <2>2, <2>3
  <1> QED BY <1>2, <1>3

\* However grants are chained, rotated and deleted, and whatever exchanges and
\* requests are under way meanwhile, a request acts as its owner or by one
\* grant that stands, and never by a key that does not
\* (AuthenticateRequest, ValidateToken, ValidateActAs, Exchange).
THEOREM ActsOnlyByGrant == Spec => ActsByGrant
  <1> DEFINE P == \A r \in Req :
                    LET c == call'[r] IN
                    call[r] = None /\ c # None =>
                        /\ c.as = c.owner \/ Granted(c.owner, c.as)
                        /\ c.key \notin Revoked
  <1>1. IInv /\ [Next]_vars => [P]_vars
    <2> SUFFICES ASSUME IInv, [Next]_vars, NEW r \in Req,
                        call[r] = None, call'[r] # None
                 PROVE  /\ call'[r].as = call'[r].owner
                           \/ Granted(call'[r].owner, call'[r].as)
                        /\ call'[r].key \notin Revoked
      BY DEF P
    <2> USE DEF IInv
    <2>1. \/ \E t \in Tok, a \in Addr \cup {None}, net \in Net, route \in Route :
              Admit(r, t, a, net, route)
          \/ \E p \in Grantable, net \in Net : Exchange(r, p, net)
      <3>1. ASSUME NEW x \in Req, Finish(x) PROVE FALSE
        BY <3>1, FinishEffect
      <3>2. Calling
        BY <3>1, StepCases, AdministeringEffect, OtherStep
           DEF Administered, Issuing, SignIn, Delegate, TokenAges
      <3>3. PICK x \in Req :
          \/ \E t \in Tok, a \in Addr \cup {None}, net \in Net, route \in Route :
                Admit(x, t, a, net, route)
          \/ \E p \in Grantable, net \in Net : Exchange(x, p, net)
        BY <3>1, <3>2 DEF Calling, Mint, EndCall, OpenSocket
      <3>4. x = r
        BY <3>3, AdmitEffect, ExchangeEffect
      <3> QED BY <3>3, <3>4
    <2>2. ASSUME NEW p \in Grantable, NEW net \in Net, Exchange(r, p, net)
          PROVE  /\ Granted(call'[r].owner, call'[r].as)
                 /\ call'[r].key \notin Revoked
      BY <2>2, ExchangeEffect DEF Granted, Revoked
    <2> QED BY <2>1, <2>2, Admits
  <1> QED BY <1>1, AccessInit, AccessStep, PTL DEF Spec, ActsByGrant

\* Whatever an owner's delegates hold, a request changes the owner's grants
\* only when the owner signed in (requireIdPOwner, AllowsRoute).
THEOREM OwnersAdminister == Spec => OnlyOwnersAdminister
  <1> DEFINE P == \A p \in Grantable :
                    row'[p] # row[p] /\ call' # call =>
                        \E t \in Tok : /\ token[t] # None
                                       /\ token[t].kind = "idp"
                                       /\ token[t].owner = p[1]
  <1>1. IInv /\ [Next]_vars => [P]_vars
    <2> SUFFICES ASSUME IInv, [Next]_vars, NEW p \in Grantable,
                        row'[p] # row[p], call' # call
                 PROVE  \E t \in Tok : /\ token[t] # None
                                       /\ token[t].kind = "idp"
                                       /\ token[t].owner = p[1]
      BY DEF P
    <2> USE DEF IInv
    <2>1. Administering
      BY StepCases, OtherStep DEF Issuing, SignIn, Delegate, TokenAges, Calling,
         Admit, Exchange, Mint, EndCall, OpenSocket
    <2>2. PICK r \in Req : Administered(r, p)
      BY <2>1, AdministeringEffect DEF Administered
    <2>3. /\ call[r] # None /\ call[r].route = "admin"
          /\ call[r].kind = "idp" /\ call[r].owner = p[1]
      BY <2>2 DEF Administered, Administers, RequireIdPOwner
    <2> QED BY <2>3 DEF Rests
  <1> QED BY <1>1, AccessInit, AccessStep, PTL DEF Spec, OnlyOwnersAdminister
=============================================================================
