--------------------------- MODULE ProvisionerAPI ---------------------------
(***************************************************************************)
(* The HTTP contract of the provisioner service, as the server generated   *)
(* from api/provisioner/v1/openapi.yaml and the handlers hold it.  No      *)
(* client is generated for it: its callers build requests by hand.         *)
(***************************************************************************)
EXTENDS Integers

ProvisionerOps == {"GetJob", "ProvisionVPC", "DeprovisionVPC"}

ProvisionerRoutes == [
  GetJob         |-> <<"GET", "jobs", "*">>,
  ProvisionVPC   |-> <<"POST", "provision">>,
  DeprovisionVPC |-> <<"DELETE", "*">>]

ProvisionerParams ==
  [GetJob |-> {"uuid"}, ProvisionVPC |-> {}, DeprovisionVPC |-> {"string"}]

ProvisionerBodies == {"ProvisionVPC"}

\* The JSON replies that each operation declares (its Visit methods).
VisitGetJob         == {200, 400, 404, 500}
VisitProvisionVPC   == {202, 400, 409, 422, 500, 503}
VisitDeprovisionVPC == {202, 400, 404, 500}

ProvisionerReplies == [
  GetJob |-> VisitGetJob, ProvisionVPC |-> VisitProvisionVPC,
  DeprovisionVPC |-> VisitDeprovisionVPC]

\* What a caller that knows the paths sends.
ProvisionerRequests == [
  GetJob         |-> <<"GET", "jobs", "job-1">>,
  ProvisionVPC   |-> <<"POST", "provision">>,
  DeprovisionVPC |-> <<"DELETE", "acme">>]

-----------------------------------------------------------------------------
\* The errors each service method returns.  Provision enqueues and returns: it
\* never finds out about a tenant or a CIDR block.
ProvisionerErrors == [
  GetJob         |-> {"ErrJobNotFound", "other"},
  ProvisionVPC   |-> {"other"},
  DeprovisionVPC |-> {"ErrTenantNotFound", "other"}]

\* HTTPStatusAndBody.
ProvisionerStatus == [
  ErrTenantAlreadyExists |-> <<409, "CONFLICT">>,
  ErrTenantNotFound      |-> <<404, "NOT_FOUND">>,
  ErrJobNotFound         |-> <<404, "NOT_FOUND">>,
  ErrCIDRExhausted       |-> <<503, "SERVICE_UNAVAILABLE">>,
  other                  |-> <<500, "INTERNAL_ERROR">>]

\* Handler: the status of a success, and the error statuses it answers as such.
ProvisionerHandler == [
  GetJob |-> <<200, {404}>>, ProvisionVPC |-> <<202, {409, 503}>>,
  DeprovisionVPC |-> <<202, {404}>>]

\* tenantIDPattern: a slug that is no DNS label, in the body or in the path.
ProvisionerRules ==
  [ProvisionVPC |-> <<422, "UNPROCESSABLE">>, DeprovisionVPC |-> <<400, "BAD_REQUEST">>]
=============================================================================
