------------------------------- MODULE Access -------------------------------
(***************************************************************************)
(* Who a request acts as, and what changes that: sessions and delegated    *)
(* tokens of the identity provider, API tokens minted from a grant's key,  *)
(* act-as, the grants an owner administers over HTTP and the operator on   *)
(* the command line, and the WebSocket connections tokens leave behind.    *)
(*                                                                         *)
(* A request is admitted (AuthenticateRequest, CheckScope) and acts later, *)
(* so grants can change in between.  A refused request changes nothing.    *)
(* The fmsgid lookups on the way, which can only refuse, are in            *)
(* SubAccounts.                                                            *)
(***************************************************************************)
EXTENDS Naturals, FiniteSets

CONSTANTS
    Addr,       \* addresses
    None,       \* no address, row, token or request
    Grantable,  \* pairs of owner and address a grant is made for (inputs)
    SignsIn,    \* owners the identity provider signs in (inputs)
    Delegable,  \* what delegated tokens say: owner, scopes, identities (inputs)
    Net,        \* networks requests come from
    Ranges,     \* allowed_cidrs a grant is given: sets of networks (inputs)
    Tok,        \* tokens that matter at a time (bounds the inputs)
    Req,        \* requests that can run at the same time (bounds the inputs)
    MaxKeys,    \* keys generated over time (bounds the inputs)
    MaxSockets  \* connections open at a time (bounds the inputs)

Scope == {"read", "write"}

ASSUME AccessAssumption == /\ None \notin Addr \cup Tok
                           /\ Grantable \subseteq Addr \X Addr
                           /\ SignsIn \subseteq Addr
                           /\ Delegable \subseteq [owner : Addr,
                                                  scopes : SUBSET Scope,
                                                  identities : SUBSET Addr]
                           /\ Ranges \subseteq SUBSET Net \ {{}}
                           /\ MaxKeys \in Nat /\ MaxSockets \in Nat

VARIABLES
    row,     \* fmsg_api_sub_account: the grant of each pair, or None
    keys,    \* keys generated so far; ids are random and never used again
    token,   \* tokens issued
    call,    \* requests admitted and not finished
    cli,     \* the command line rotating a key
    socket   \* WebSocket connections open

vars == <<row, keys, token, call, cli, socket>>

Kind  == {"idp", "oauth", "api"}
\* One route of each kind: that needs the read scope, that needs the write
\* scope, that is closed to delegated tokens, that takes a key.
Route == {"ws", "write", "admin", "token"}

\* live: key_expires_at is in the future.
Row == [key : 1 .. MaxKeys, nets : Ranges, live : BOOLEAN]

\* A token is valid until exp and accepted for ClockSkew longer.
Token == [kind : Kind, owner : Addr, sub : Addr, key : 0 .. MaxKeys,
          scopes : SUBSET Scope, identities : SUBSET Addr,
          age : {"valid", "leeway", "expired"}]

ASSUME NoneAssumption == None \notin Token

\* Identity, owner and kind of an admitted request (authResult), its token
\* and what it calls; a token exchange has a key instead of a token.
Call == [owner : Addr, as : Addr, kind : Kind, route : Route,
         via : Tok \cup {None}, key : 0 .. MaxKeys]

TypeOK ==
    /\ row \in [Grantable -> Row \cup {None}]
    /\ keys \in 0 .. MaxKeys
    /\ token \in [Tok -> Token \cup {None}]
    /\ call \in [Req -> Call \cup {None}]
    /\ cli \in [pair : Grantable, nets : Ranges] \cup {None}
    /\ socket \subseteq [via : Tok, as : Addr]

Init ==
    /\ row = [p \in Grantable |-> None]
    /\ keys = 0
    /\ token = [t \in Tok |-> None]
    /\ call = [r \in Req |-> None]
    /\ cli = None
    /\ socket = {}

Granted(o, a) == <<o, a>> \in Grantable /\ row[<<o, a>>] # None

-----------------------------------------------------------------------------
(***************************************************************************)
(* Tokens                                                                  *)
(***************************************************************************)

\* t stands for a token not issued yet: a slot never used, or that of an
\* expired token no request or connection still rests on.
Unissued(t) ==
    token[t] # None =>
        /\ token[t].age = "expired"
        /\ \A r \in Req : call[r] # None => call[r].via # t
        /\ \A s \in socket : s.via # t

Issue(t, kind, o, sub, key, scopes, identities) ==
    /\ Unissued(t)
    /\ token' = [token EXCEPT ![t] =
                   [kind |-> kind, owner |-> o, sub |-> sub, key |-> key,
                    scopes |-> scopes, identities |-> identities,
                    age |-> "valid"]]

\* The identity provider signs o in, or signs a delegated token of o's
\* (told apart by their audience; one with both, or neither, is refused).
\* Scopes the API does not know are left out.
SignIn(t, o) ==
    /\ Issue(t, "idp", o, o, 0, {}, {})
    /\ UNCHANGED <<row, keys, call, cli, socket>>

Delegate(t, o, scopes, identities) ==
    /\ Issue(t, "oauth", o, o, 0, scopes, identities)
    /\ UNCHANGED <<row, keys, call, cli, socket>>

\* Time passes: exp, then the leeway.
TokenAges(t) ==
    /\ token[t] # None
    /\ token[t].age # "expired"
    /\ token' = [token EXCEPT ![t].age =
                   IF @ = "valid" THEN "leeway" ELSE "expired"]
    /\ UNCHANGED <<row, keys, call, cli, socket>>

\* Time passes: key_expires_at.
KeyExpires(p) ==
    /\ row[p] # None
    /\ row[p].live
    /\ row' = [row EXCEPT ![p].live = FALSE]
    /\ UNCHANGED <<keys, token, call, cli, socket>>

-----------------------------------------------------------------------------
(***************************************************************************)
(* Admission                                                               *)
(***************************************************************************)

\* Mutant of ValidateToken: any key of the grant will do.
ValidateTokenAnyKey(k, o, sub, net) ==
    /\ Granted(o, sub)
    /\ row[<<o, sub>>].live
    /\ net \in row[<<o, sub>>].nets

\* Store.ValidateToken: a row of that key, owner and address.
ValidateToken(k, o, sub, net) ==
    /\ Granted(o, sub)
    /\ row[<<o, sub>>].key = k
    /\ row[<<o, sub>>].live
    /\ net \in row[<<o, sub>>].nets

\* Store.ValidateActAs
ValidateActAs(o, a) == Granted(o, a)

\* AuthenticateRequest: the addresses a request with token t, naming actAs or
\* None, is let in as: one or none.
Identity(t, actAs, net) ==
    LET k == token[t] IN
    IF k.age = "expired" THEN {}
    ELSE IF k.kind = "api"
    THEN {a \in {k.sub} : actAs = None /\ ValidateToken(k.key, k.owner, a, net)}
    ELSE IF actAs = None THEN {k.owner}
    ELSE {a \in {actAs} : /\ k.kind = "oauth" => a \in k.identities
                          /\ ValidateActAs(k.owner, a)}

\* OAuthRouteScope: routes not in the table are closed to delegated tokens.
OAuthRouteScope(route) ==
    CASE route = "ws"     -> {"read"}
      [] route = "write"  -> {"write"}
      [] OTHER            -> {}

AllowsRoute(k, route) ==
    k.kind = "oauth" => OAuthRouteScope(route) \cap k.scopes # {}

Admit(r, t, actAs, net, route) ==
    /\ call[r] = None
    /\ token[t] # None
    /\ route # "token"
    /\ AllowsRoute(token[t], route)
    /\ \E a \in Identity(t, actAs, net) :
          call' = [call EXCEPT ![r] =
                     [owner |-> token[t].owner, as |-> a,
                      kind |-> token[t].kind, route |-> route, via |-> t,
                      key |-> token[t].key]]
    /\ UNCHANGED <<row, keys, token, cli, socket>>

\* POST /fmsg/token with the key of p: ValidateAPIKey.
Exchange(r, p, net) ==
    /\ call[r] = None
    /\ row[p] # None
    /\ row[p].live
    /\ net \in row[p].nets
    /\ call' = [call EXCEPT ![r] =
                  [owner |-> p[1], as |-> p[2], kind |-> "api",
                   route |-> "token", via |-> None, key |-> row[p].key]]
    /\ UNCHANGED <<row, keys, token, cli, socket>>

Finish(r) == call' = [call EXCEPT ![r] = None]

\* The key may have been replaced since it was validated.
Mint(r, t) ==
    /\ call[r] # None
    /\ call[r].route = "token"
    /\ Issue(t, "api", call[r].owner, call[r].as, call[r].key, {}, {})
    /\ Finish(r)
    /\ UNCHANGED <<row, keys, cli, socket>>

\* The request fails, or was of a kind that changes nothing here.
EndCall(r) ==
    /\ call[r] # None
    /\ Finish(r)
    /\ UNCHANGED <<row, keys, token, cli, socket>>

-----------------------------------------------------------------------------
(***************************************************************************)
(* Grants                                                                  *)
(***************************************************************************)

\* Mutant of RequireIdPOwner: the identity acted as is the owner.
RequireIdPActing(c) == {o \in {c.as} : c.kind = "idp"}

\* The owner whose grants an admitted request may administer, if any.
RequireIdPOwner(c) == {o \in {c.owner} : c.kind = "idp" /\ c.as = c.owner}

\* An admitted administration request for the grant p.
Administers(r, p) ==
    /\ call[r] # None
    /\ call[r].route = "admin"
    /\ p[1] \in RequireIdPOwner(call[r])

\* A row with a key just generated.
NewKey(p, nets) ==
    /\ keys < MaxKeys
    /\ keys' = keys + 1
    /\ row' = [row EXCEPT ![p] = [key |-> keys', nets |-> nets, live |-> TRUE]]

CreateGrant(r, p, nets) ==
    /\ Administers(r, p)
    /\ row[p] = None
    /\ NewKey(p, nets)
    /\ Finish(r)
    /\ UNCHANGED <<token, cli, socket>>

RotateKey(r, p) ==
    /\ Administers(r, p)
    /\ row[p] # None
    /\ NewKey(p, row[p].nets)
    /\ Finish(r)
    /\ UNCHANGED <<token, cli, socket>>

UpdateCIDRs(r, p, nets) ==
    /\ Administers(r, p)
    /\ row[p] # None
    /\ row' = [row EXCEPT ![p].nets = nets]
    /\ Finish(r)
    /\ UNCHANGED <<keys, token, cli, socket>>

\* Mutant of DeleteGrant: the key is cleared and the row is kept.
DeleteGrantSoftly(r, p) ==
    /\ Administers(r, p)
    /\ row[p] # None
    /\ row' = [row EXCEPT ![p].key = 0]
    /\ Finish(r)
    /\ UNCHANGED <<keys, token, cli, socket>>

DeleteGrant(r, p) ==
    /\ Administers(r, p)
    /\ row[p] # None
    /\ row' = [row EXCEPT ![p] = None]
    /\ Finish(r)
    /\ UNCHANGED <<keys, token, cli, socket>>

\* api-key create, create-delegation
CliCreate(p, nets) ==
    /\ cli = None
    /\ row[p] = None
    /\ NewKey(p, nets)
    /\ UNCHANGED <<token, call, cli, socket>>

\* api-key rotate, rotate-delegation: the key, and then the ranges if any are
\* named, in statements of their own.  It can end between them.
CliRotate(p, nets) ==
    /\ cli = None
    /\ row[p] # None
    /\ NewKey(p, row[p].nets)
    /\ cli' = IF nets = None THEN None ELSE [pair |-> p, nets |-> nets]
    /\ UNCHANGED <<token, call, socket>>

CliRanges ==
    /\ cli # None
    /\ row' = IF row[cli.pair] = None THEN row
              ELSE [row EXCEPT ![cli.pair].nets = cli.nets]
    /\ cli' = None
    /\ UNCHANGED <<keys, token, call, socket>>

CliEnds ==
    /\ cli # None
    /\ cli' = None
    /\ UNCHANGED <<row, keys, token, call, socket>>

-----------------------------------------------------------------------------
(***************************************************************************)
(* WebSocket connections                                                   *)
(***************************************************************************)

OpenSocket(r) ==
    /\ call[r] # None
    /\ call[r].route = "ws"
    /\ Cardinality(socket) < MaxSockets
    /\ socket' = socket \cup {[via |-> call[r].via, as |-> call[r].as]}
    /\ Finish(r)
    /\ UNCHANGED <<row, keys, token, cli>>

SocketLeaves(s) ==
    /\ s \in socket
    /\ socket' = socket \ {s}
    /\ UNCHANGED <<row, keys, token, call, cli>>

\* Mutant of SocketExpires: Expires is lost when the request acts as another.
SocketExpiresOwn(s) ==
    /\ s \in socket
    /\ token[s.via].kind = "oauth" /\ s.as = token[s.via].owner
    /\ token[s.via].age # "valid"
    /\ socket' = socket \ {s}
    /\ UNCHANGED <<row, keys, token, call, cli>>

\* The timer of Connect: only delegated tokens carry Expires.
SocketExpires(s) ==
    /\ s \in socket
    /\ token[s.via].kind = "oauth"
    /\ token[s.via].age # "valid"
    /\ socket' = socket \ {s}
    /\ UNCHANGED <<row, keys, token, call, cli>>

-----------------------------------------------------------------------------
Issuing ==
    \E t \in Tok :
        \/ \E o \in SignsIn : SignIn(t, o)
        \/ \E d \in Delegable : Delegate(t, d.owner, d.scopes, d.identities)
        \/ TokenAges(t)

Calling ==
    \E r \in Req :
        \/ \E t \in Tok, a \in Addr \cup {None}, net \in Net, route \in Route :
              Admit(r, t, a, net, route)
        \/ \E p \in Grantable, net \in Net : Exchange(r, p, net)
        \/ \E t \in Tok : Mint(r, t)
        \/ EndCall(r)
        \/ OpenSocket(r)

Administering ==
    \E p \in Grantable :
        \/ \E r \in Req, nets \in Ranges : \/ CreateGrant(r, p, nets)
                                          \/ UpdateCIDRs(r, p, nets)
        \/ \E r \in Req : RotateKey(r, p) \/ DeleteGrant(r, p)
        \/ \E nets \in Ranges : CliCreate(p, nets)
        \/ \E nets \in Ranges \cup {None} : CliRotate(p, nets)
        \/ KeyExpires(p)

Next ==
    \/ Issuing \/ Calling \/ Administering
    \/ CliRanges \/ CliEnds
    \/ \E s \in socket : SocketLeaves(s) \/ SocketExpires(s)

Spec == Init /\ [][Next]_vars

Socket == [via : Tok, as : Addr]

\* The timer of a connection fires.
FairSpec == Spec /\ \A s \in Socket : WF_vars(SocketExpires(s))

-----------------------------------------------------------------------------
(***************************************************************************)
(* Properties                                                              *)
(***************************************************************************)

\* Keys generated and since replaced or deleted.
Revoked == 1 .. keys \ {row[p].key : p \in {q \in Grantable : row[q] # None}}

\* A request acts as its token's owner or as an address that owner was granted
\* and still is (one grant, never a chain of them), and a key that was rotated
\* or deleted lets nobody in again: not through tokens exchanged for it
\* before, nor through one minted from an exchange that was under way
\* (AuthenticateRequest, ValidateToken, Exchange).
ActsByGrant ==
    [][\A r \in Req :
         LET c == call'[r] IN
         call[r] = None /\ c # None =>
             /\ c.as = c.owner \/ Granted(c.owner, c.as)
             /\ c.key \notin Revoked]_vars

\* No request changes the grants of an owner who never signed in, whatever
\* grants, API tokens, delegated tokens and act-as others hold: to act as an
\* address is not to own its grants (requireIdPOwner, AllowsRoute).  The
\* command line and the clock, which are no requests, may.
OnlyOwnersAdminister ==
    [][\A p \in Grantable :
         row'[p] # row[p] /\ call' # call =>
             \E t \in Tok : /\ token[t] # None
                            /\ token[t].kind = "idp"
                            /\ token[t].owner = p[1]]_vars

\* A WebSocket connection of a delegated token does not outlive the token:
\* also not one opened in the leeway after exp, or acting as another (Connect).
DelegatedSocketEnds ==
    \A s \in Socket :
        (/\ s \in socket
         /\ token[s.via].kind = "oauth"
         /\ token[s.via].age # "valid") ~> s \notin socket
=============================================================================
