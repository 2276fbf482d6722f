--------------------------- MODULE MCBlobBrowser ----------------------------
(* Model-checking instance of BlobBrowser: a text, a short RIFF file and a   *)
(* string that is no blob id.                                                *)
EXTENDS BlobBrowser, TLC

CONSTANTS text, riff, noid

MCSize == text :> 9 @@ riff :> 11 @@ noid :> 0

=============================================================================
