---------------------------- MODULE AccountsAPI ----------------------------
(***************************************************************************)
(* The HTTP contract of the accounts service, as the code generated from   *)
(* api/accounts/v1/openapi.yaml and the handlers hold it: what the server  *)
(* routes, binds, decodes and may answer, and what the generated client    *)
(* sends and reads back.  A route is a method and path segments, "*" being *)
(* a path parameter.                                                       *)
(***************************************************************************)
EXTENDS Integers

AccountsOps ==
  {"DeleteAccount", "GetAccount", "IssueKey", "RevokeKey", "ProvisionNetwork", "Register"}

-----------------------------------------------------------------------------
\* The server: the mux, the wrappers' typed path parameters, JSON bodies.
AccountsRoutes == [
  DeleteAccount    |-> <<"DELETE", "accounts", "*">>,
  GetAccount       |-> <<"GET", "accounts", "*">>,
  IssueKey         |-> <<"POST", "accounts", "*", "keys">>,
  RevokeKey        |-> <<"DELETE", "accounts", "*", "keys", "*">>,
  ProvisionNetwork |-> <<"POST", "accounts", "*", "provision">>,
  Register         |-> <<"POST", "register">>]

AccountsParams == [
  DeleteAccount |-> {"string"}, GetAccount       |-> {"string"}, IssueKey |-> {"string"},
  RevokeKey     |-> {"string", "uuid"}, ProvisionNetwork |-> {"string"}, Register |-> {}]

AccountsBodies == {"IssueKey", "Register"}

\* The JSON replies that each operation declares (its Visit methods; the 204 of
\* RevokeKey has no body).
VisitDeleteAccount    == {202, 400, 404, 500}
VisitGetAccount       == {200, 400, 404, 500}
VisitIssueKey         == {201, 400, 404, 422, 500}
VisitRevokeKey        == {400, 404, 500}
VisitProvisionNetwork == {202, 400, 404, 409, 500}
VisitRegister         == {201, 400, 409, 422, 500}

AccountsReplies == [
  DeleteAccount |-> VisitDeleteAccount, GetAccount       |-> VisitGetAccount,
  IssueKey      |-> VisitIssueKey,      RevokeKey        |-> VisitRevokeKey,
  Register      |-> VisitRegister,      ProvisionNetwork |-> VisitProvisionNetwork]

-----------------------------------------------------------------------------
\* The generated client: the requests it builds, for tenant "acme" and a key ...
NewDeleteAccountRequest    == <<"DELETE", "accounts", "acme">>
NewGetAccountRequest       == <<"GET", "accounts", "acme">>
NewIssueKeyRequest         == <<"POST", "accounts", "acme", "keys">>
NewRevokeKeyRequest        == <<"DELETE", "accounts", "acme", "keys", "key-1">>
NewProvisionNetworkRequest == <<"POST", "accounts", "acme", "provision">>
NewRegisterRequest         == <<"POST", "register">>

AccountsRequests == [
  DeleteAccount    |-> NewDeleteAccountRequest, GetAccount |-> NewGetAccountRequest,
  IssueKey         |-> NewIssueKeyRequest,      RevokeKey  |-> NewRevokeKeyRequest,
  ProvisionNetwork |-> NewProvisionNetworkRequest, Register |-> NewRegisterRequest]

\* ... and the JSON replies it reads into a field of their own.
ParseDeleteAccount    == {202, 400, 404, 500}
ParseGetAccount       == {200, 400, 404, 500}
ParseIssueKey         == {201, 400, 404, 422, 500}
ParseRevokeKey        == {400, 404, 500}
ParseProvisionNetwork == {202, 400, 404, 409, 500}

\* (Mutant) A client generated before Register declared its 422.
ParseRegisterStale == {201, 400, 409, 500}
ParseRegister      == {201, 400, 409, 422, 500}

AccountsParse == [
  DeleteAccount |-> ParseDeleteAccount, GetAccount       |-> ParseGetAccount,
  IssueKey      |-> ParseIssueKey,      RevokeKey        |-> ParseRevokeKey,
  Register      |-> ParseRegister,      ProvisionNetwork |-> ParseProvisionNetwork]

-----------------------------------------------------------------------------
\* The service: the errors each method returns; "other" is an error of a store.
AccountsErrors == [
  ProvisionNetwork |-> {"ErrAccountNotFound", "other"},
  GetAccount       |-> {"ErrAccountNotFound", "other"},
  DeleteAccount    |-> {"ErrAccountNotFound", "other"},
  IssueKey         |-> {"ErrAccountNotFound", "ErrAccountNotActive", "other"},
  RevokeKey        |-> {"ErrAccountNotFound", "other"},
  Register         |-> {"ErrEmailAlreadyRegistered", "ErrAccountAlreadyExists", "other"}]

\* HTTPStatusAndBody.
AccountsStatus == [
  ErrAccountAlreadyExists   |-> <<409, "CONFLICT">>,
  ErrEmailAlreadyRegistered |-> <<409, "CONFLICT">>,
  ErrAccountNotFound        |-> <<404, "NOT_FOUND">>,
  ErrKeyNotFound            |-> <<404, "NOT_FOUND">>,
  ErrAccountNotActive       |-> <<422, "UNPROCESSABLE">>,
  other                     |-> <<500, "INTERNAL_ERROR">>]

\* Handler: the status of a success, and the error statuses its switch knows.
\* It turns every other one into a 500, with the body HTTPStatusAndBody made.
AccountsHandler == [
  ProvisionNetwork |-> <<202, {404, 409}>>, GetAccount |-> <<200, {404}>>,
  DeleteAccount    |-> <<202, {404}>>,      IssueKey   |-> <<201, {404, 422}>>,
  Register         |-> <<201, {409, 422}>>, RevokeKey  |-> <<204, {404}>>]

\* ToServiceRegisterParams: a bad address or a short password is refused with
\* 422 before the service is called.
AccountsRules == [Register |-> <<422, "UNPROCESSABLE">>]
=============================================================================
