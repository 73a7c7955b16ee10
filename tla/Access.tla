------------------------------- MODULE Access -------------------------------
(***************************************************************************)
(* Who may call: the API keys in the database (keys.go, auth.go) and the   *)
(* view tokens of the live watch (watch.go), signed, of one session, and   *)
(* valid for a while.  The signature is what ties a token to the signing   *)
(* key: it is kept as that key.                                            *)
(***************************************************************************)
EXTENDS Integers, FiniteSets, Functions

CONSTANTS Sessions, None, ViewTokenTTL,
          MaxTime, MaxTokens    \* bounds

ASSUME AccessAssumption ==
  /\ None \notin Sessions
  /\ ViewTokenTTL \in Nat \ {0} /\ MaxTime \in Nat /\ MaxTokens \in Nat

VARIABLES
  keys,      \* api_keys: the status of each key there is
  signing,   \* the server's signing key
  tokens,    \* the tokens ever handed out, in a watch_url
  cookie,    \* the browser's watch cookie for each session's path
  seen,      \* the session whose viewer was opened last, in this second and process
  now

accessVars == <<keys, signing, tokens, cookie, seen, now>>

\* A configured key, or the random key of the n-th start.
SigningKey == [key : STRING, start : Nat]
Unsigned == [key |-> "", start |-> 0]

ResolveSigningKey(text, n) == [key |-> text, start |-> IF text = "" THEN n ELSE 0]

\* Mutant of SeedBootstrapKey: the key is made active if it is there.
SeedBootstrapKeyUpsert(k) ==
  keys' = [x \in DOMAIN keys \cup {k} |-> IF x = k THEN "active" ELSE keys[x]]

\* Create if absent.
SeedBootstrapKey(k) ==
  keys' = [x \in DOMAIN keys \cup {k} |-> IF x \in DOMAIN keys THEN keys[x] ELSE "active"]

\* An operator disables a key, in the database: the program has no such call.
DisableKey(k) ==
  /\ k \in DOMAIN keys /\ keys[k] = "active"
  /\ keys' = [keys EXCEPT ![k] = "disabled"]
  /\ UNCHANGED <<signing, tokens, cookie, seen, now>>

LookupKey(k) == k \in DOMAIN keys /\ keys[k] = "active"

MintViewToken(s) == [sid |-> s, expiry |-> now + ViewTokenTTL, by |-> signing]

ValidateViewToken(t, s) == t.by = signing /\ t.sid = s /\ now < t.expiry

\* GET /sessions/{id} with a key: the answer has a watch_url with a new token.
Poll(k, s) ==
  /\ LookupKey(k)
  /\ MintViewToken(s) \in tokens \/ Cardinality(tokens) < MaxTokens
  /\ tokens' = tokens \cup {MintViewToken(s)}
  /\ UNCHANGED <<keys, signing, cookie, seen, now>>

\* Mutant of Watch: the cookies add up.
WatchAddsCookie(t, s) ==
  /\ ValidateViewToken(t, s)
  /\ cookie' = [cookie EXCEPT ![s] = @ \cup {t}]
  /\ seen' = s
  /\ UNCHANGED <<keys, signing, tokens, now>>

\* GET /sessions/{id}/watch?token=: the token becomes the cookie.  Refusals,
\* also of a session that is not ready, change nothing.
Watch(t, s) ==
  /\ ValidateViewToken(t, s)
  /\ cookie' = [cookie EXCEPT ![s] = {t}]
  /\ seen' = s
  /\ UNCHANGED <<keys, signing, tokens, now>>

\* Mutant of WatchByCookie: a cookie the server has set is trusted.
WatchByAnyCookie(s) ==
  /\ cookie[s] # {}
  /\ seen' = s
  /\ UNCHANGED <<keys, signing, tokens, cookie, now>>

\* Pages and sockets under it, with the cookie alone.  The browser drops a cookie
\* after ViewTokenTTL, which is not before the token in it expires.
WatchByCookie(s) ==
  /\ \E t \in cookie[s] : ValidateViewToken(t, s)
  /\ seen' = s
  /\ UNCHANGED <<keys, signing, tokens, cookie, now>>

Tick ==
  /\ now < MaxTime
  /\ now' = now + 1
  /\ seen' = None
  /\ UNCHANGED <<keys, signing, tokens, cookie>>

\* A link is opened under any session's path, by whoever holds it.
AccessNext ==
  \E s \in Sessions :
    \/ \E k \in DOMAIN keys : Poll(k, s)
    \/ \E t \in tokens : Watch(t, s)
    \/ WatchByCookie(s)

=============================================================================
