------------------------------- MODULE Identity -------------------------------
(***************************************************************************)
(* The user a request is made for, internal/transform/transform.go: which  *)
(* user_id goes upstream and what keeps the reasoning of two users apart.  *)
(* The fields user and user_id of a request are Null (absent or null),     *)
(* NotString, Blank, or a string.                                          *)
(***************************************************************************)
EXTENDS Config

CONSTANTS Null, NotString,
          ValidIds,      \* the strings validUserIDRe matches
          NoIdentity,    \* no user_id is sent
          InvalidUser    \* a RequestValidationError

\* HMAC-SHA256 under the bearer token: one value for each token and user.
DeriveUserID(user, authorization) == <<"u", authorization, user>>

\* A blank user_id ends the search: user is not looked at.
NormalizeUpstreamUserID(r) ==
    IF NotString \in {r.user, r.user_id} THEN InvalidUser
    ELSE IF r.user_id = Null
    THEN IF r.user \in {Null, Blank} THEN NoIdentity ELSE DeriveUserID(r.user, r.auth)
    ELSE IF r.user_id = Blank THEN NoIdentity
    ELSE IF r.user_id \in ValidIds THEN <<r.user_id>> ELSE InvalidUser

\* The part of the cache namespace that tells requests of one conversation apart.
Namespace(r) == [authorization |-> r.auth, user_id |-> NormalizeUpstreamUserID(r)]

=============================================================================
