---------------------------------- MODULE Auth ----------------------------------
(***************************************************************************)
(* threaticap/api/auth.py: roles, and how a request's credentials become a *)
(* role.  Hashes and signatures are taken to be what they should be: a key *)
(* is found under its own hash only, and a token decodes only if this      *)
(* deployment signed it and it has not expired.                            *)
(***************************************************************************)
EXTENDS Naturals, Sequences, SequencesExt, Functions

RoleHierarchy == <<"reader", "analyst", "operator", "admin">>
Role == ToSet(RoleHierarchy)
Refused == "refused"

Rank(order, x) == CHOOSE i \in DOMAIN order : order[i] = x

HasRole(user, required) ==
  user # Refused /\ Rank(RoleHierarchy, user) >= Rank(RoleHierarchy, required)

\* _register_dev_key: an equal key overwrites.
RegisterKey(keys, key, role) ==
  [k \in DOMAIN keys \cup {key} |-> IF k = key THEN role ELSE keys[k]]

\* _init_dev_keys: the master key, then the keys of the environment in order;
\* an unknown role becomes reader.
DevKeys(master, environment) ==
  FoldLeft(LAMBDA keys, e :
             RegisterKey(keys, e.key, IF e.role \in Role THEN e.role ELSE "reader"),
           [k \in {master} |-> "admin"], environment)

\* APIKeyStore.validate.
ValidateKey(keys, key) == IF key \in DOMAIN keys THEN keys[key] ELSE Refused

\* A decoded token's role claim; one that is no role is refused like a bad token.
RoleOfClaims(claims) == IF claims.valid /\ claims.role \in Role THEN claims.role ELSE Refused

NoKey == "no key"
NoToken == [valid |-> FALSE, role |-> "none"]

\* authenticate_request: a key that is given decides alone, also when it is
\* wrong and the token beside it is good.
Authenticate(authDisabled, keys, key, claims) ==
  IF authDisabled THEN "admin"
  ELSE IF key # NoKey THEN ValidateKey(keys, key)
  ELSE RoleOfClaims(claims)
=============================================================================
