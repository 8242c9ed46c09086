------------------------------- MODULE Accounts -------------------------------
(***************************************************************************)
(* The accounts a scan can log in with: the authentication profiles and    *)
(* the identities of the configuration (internal/config, internal/auth),   *)
(* and what they resolve to.  A credential is the name of a variable of    *)
(* the environment; Unset is the empty string.                             *)
(***************************************************************************)
EXTENDS Integers, Sequences, SequencesExt

CONSTANTS
  AuthProfiles,  \* authentication.profiles, in the order of the file
  Identities,    \* identities.identities
  MaxIdentities, \* identities.max_count
  Environment,   \* the variables that are set, and their values
  Unset,         \* no value
  Nowhere        \* no host

Credentials == {"username", "password", "cookie", "token", "value"}

(* What a profile of a type has to name.                                   *)
FormTypes   == {"form_login", "form_login_auto"}
StaticTypes == {"cookie", "bearer_token", "header"}

Needs(type) ==
  CASE type \in FormTypes      -> {"username", "password"}
    [] type = "cookie"         -> {"cookie"}
    [] type = "bearer_token"   -> {"token"}
    [] type = "header"         -> {"value"}

-----------------------------------------------------------------------------
(* Config.Validate.  The structure of profiles and identities is checked   *)
(* when the configuration is loaded, whatever the command; whether a       *)
(* variable is set, and whether an address is one, is not.                 *)
ValidProfile(p) ==
  /\ p.name # Unset
  /\ p.type \in FormTypes \cup StaticTypes
  /\ \A c \in Needs(p.type) : p.env[c] # Unset
  /\ p.type \in FormTypes => p.url # Unset
  /\ p.type \in StaticTypes => p.host # Nowhere
  /\ p.type = "header" => p.header # Unset
  /\ p.redirects >= 0

NamesOf(list) == {list[i].name : i \in DOMAIN list}
Distinct(list) == \A i, j \in DOMAIN list : list[i].name = list[j].name => i = j

ValidIdentity(id) == id.name # Unset /\ id.profile \in NamesOf(AuthProfiles)

IdentityLimit == IF MaxIdentities <= 0 THEN 10 ELSE MaxIdentities

ValidAccounts ==
  /\ Distinct(AuthProfiles) /\ \A p \in Range(AuthProfiles) : ValidProfile(p)
  /\ Distinct(Identities) /\ \A id \in Range(Identities) : ValidIdentity(id)
  /\ Len(Identities) <= IdentityLimit

(* The fields of a profile, as the configuration's type has them.          *)
IsProfile(p) ==
  p = [name |-> p.name, type |-> p.type, url |-> p.url, host |-> p.host, env |-> p.env,
       header |-> p.header, redirects |-> p.redirects]

ASSUME AccountsAssumption ==
  /\ ValidAccounts
  /\ \A p \in Range(AuthProfiles) : IsProfile(p)

-----------------------------------------------------------------------------
Named(list, name) == list[CHOOSE i \in DOMAIN list : list[i].name = name]

(* lookupEnv: a variable that is not set, or empty, is an error.           *)
IsSet(var) == var # Unset /\ var \in DOMAIN Environment /\ Environment[var] # Unset

(* ResolveProfile collects every error; one is enough to fail.  The host   *)
(* of the session is that of the login's address unless one is given.      *)
ProfileResolves(p) ==
  /\ p.type \in FormTypes \cup StaticTypes
  /\ p.redirects >= 0
  /\ p.type \in FormTypes => p.url # Unset /\ p.url.absolute
  /\ p.type \in StaticTypes => p.host # Nowhere
  /\ p.type = "header" => p.header # Unset
  /\ \A c \in Needs(p.type) : IsSet(p.env[c])

DefaultMaxRedirects == 5

Resolved(p) ==
  [name      |-> p.name,
   type      |-> p.type,
   url       |-> p.url,
   host      |-> IF p.host # Nowhere THEN p.host ELSE p.url.host,
   redirects |-> IF p.redirects = 0 THEN DefaultMaxRedirects ELSE p.redirects,
   secrets   |-> [c \in Needs(p.type) |-> Environment[p.env[c]]]]

(* ResolveIdentityProfile: the profile of the identity, with those of the  *)
(* credentials that the identity names itself.                             *)
WithOverrides(id, p) ==
  [p EXCEPT !.env = [c \in Credentials |-> IF id.env[c] # Unset THEN id.env[c] ELSE p.env[c]]]

ProfileOf(id) == WithOverrides(id, Named(AuthProfiles, id.profile))

(* findIdentityConfig and FindProfileConfig.                               *)
KnownIdentity(name) == name \in NamesOf(Identities)
KnownProfile(name)  == name \in NamesOf(AuthProfiles)
===============================================================================
