---------------------------- MODULE MCBlobCache ----------------------------
(* Model-checking instance of BlobCache.                                   *)
EXTENDS BlobCache

\* The blob that comes first in key order is larger than the cache can be
\* when a run has just found it over budget without that blob.
MCSize == [b \in Blob |-> CASE b = 1 -> 4 [] b = 2 -> 2 [] OTHER -> 1]

=============================================================================
