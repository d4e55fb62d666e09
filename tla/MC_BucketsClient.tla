-------------------------- MODULE MC_BucketsClient --------------------------
EXTENDS BucketsClient

(* Ten buckets give two full ranges of 4 and a short range of 2 (DMIN);      *)
(* for three servers; twelve give three ranges for two servers.                              *)
MCBucketsFew == 10
MCBucketsMany == 12

=============================================================================
