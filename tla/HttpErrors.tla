------------------------------ MODULE HttpErrors ------------------------------
(***************************************************************************)
(* How an ApplicationError becomes an HTTP answer: its status, and the     *)
(* WWW-Authenticate challenge a 401 or a 403 carries.  An answer's body is *)
(* the set of representations it shows; request ids, messages and headers  *)
(* which follow from the body (Location) are left out.                     *)
(***************************************************************************)
EXTENDS Naturals

\* "QueryFailed" stands for every DieselError other than NotFound too, and for
\* a connection which cannot be established.  No handler makes an "Unauthorized".
ApplicationError ==
  {"NotFound", "QueryFailed", "InvalidAuthKey", "InvalidData",
   "InvalidPassword", "Unauthorized", "Forbidden", "UserExists"}

\* The Basic challenge, and the Bearer ones: without an error and with each.
Challenges ==
  {"none", "Basic", "Bearer", "invalid_token", "insufficient_scope",
   "invalid_request"}

Response(status, body) == [status |-> status, challenge |-> "none", body |-> body]

into_status_response(e) ==
  Response(CASE e = "NotFound" -> 404
             [] e = "QueryFailed" -> 500
             [] e = "InvalidAuthKey" -> 401
             [] e = "InvalidData" -> 400
             [] e = "InvalidPassword" -> 401
             [] e = "Unauthorized" -> 401
             [] e = "Forbidden" -> 403
             [] e = "UserExists" -> 409,
           {})

bearer_challenge(e) ==
  CASE e = "InvalidAuthKey" -> "invalid_token"
    [] e = "Forbidden" -> "insufficient_scope"
    [] OTHER -> "Bearer"

with_challenge(response, challenge) ==
  IF response.status \in {401, 403}
  THEN [response EXCEPT !.challenge = challenge]
  ELSE response

into_http_response(e) ==
  with_challenge(into_status_response(e), bearer_challenge(e))

into_basic_http_response(e) == with_challenge(into_status_response(e), "Basic")

==============================================================================
