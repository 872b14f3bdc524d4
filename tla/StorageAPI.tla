----------------------------- MODULE StorageAPI -----------------------------
(***************************************************************************)
(* The HTTP contract of the storage service, as the server and the client  *)
(* generated from api/storage/v1/openapi.yaml hold it, and its placeholder *)
(* handler.  See AccountsAPI for the form of the tables.                   *)
(***************************************************************************)
EXTENDS Integers

StorageOps == {"ListBuckets", "CreateBucket", "DeleteBucket", "GetBucket"}

StorageRoutes == [
  ListBuckets  |-> <<"GET", "*", "*", "buckets">>,
  CreateBucket |-> <<"POST", "*", "*", "buckets">>,
  DeleteBucket |-> <<"DELETE", "*", "*", "buckets", "*">>,
  GetBucket    |-> <<"GET", "*", "*", "buckets", "*">>]

\* The path parameters (tenant, project and the bucket's name) are strings.
StorageParams == [op \in StorageOps |-> {"string"}]

StorageBodies == {"CreateBucket"}

\* The JSON replies that each operation declares (its Visit methods; the 204 of
\* DeleteBucket has no body).
VisitListBuckets  == {200, 401, 403, 500}
VisitCreateBucket == {201, 400, 401, 403, 409, 500}
VisitDeleteBucket == {401, 403, 404, 500}
VisitGetBucket    == {200, 401, 403, 404, 500}

StorageReplies == [
  ListBuckets  |-> VisitListBuckets,  CreateBucket |-> VisitCreateBucket,
  DeleteBucket |-> VisitDeleteBucket, GetBucket    |-> VisitGetBucket]

-----------------------------------------------------------------------------
\* The generated client, for tenant "acme", project "web" and bucket "logs".
NewListBucketsRequest  == <<"GET", "acme", "web", "buckets">>
NewCreateBucketRequest == <<"POST", "acme", "web", "buckets">>
NewDeleteBucketRequest == <<"DELETE", "acme", "web", "buckets", "logs">>
NewGetBucketRequest    == <<"GET", "acme", "web", "buckets", "logs">>

StorageRequests == [
  ListBuckets  |-> NewListBucketsRequest,  CreateBucket |-> NewCreateBucketRequest,
  DeleteBucket |-> NewDeleteBucketRequest, GetBucket    |-> NewGetBucketRequest]

\* The JSON replies it reads into a field of their own.
ParseListBuckets  == {200, 401, 403, 500}
ParseCreateBucket == {201, 400, 401, 403, 409, 500}
ParseDeleteBucket == {401, 403, 404, 500}
ParseGetBucket    == {200, 401, 403, 404, 500}

StorageParse == [
  ListBuckets  |-> ParseListBuckets,  CreateBucket |-> ParseCreateBucket,
  DeleteBucket |-> ParseDeleteBucket, GetBucket    |-> ParseGetBucket]

-----------------------------------------------------------------------------
\* The placeholder handler answers every operation with the same error.
StorageHandler == [op \in StorageOps |-> <<500, "INTERNAL_ERROR">>]
=============================================================================
