-------------------------- MODULE MCBulkIssuance --------------------------
\* Small instances of BulkIssuance for TLC.
EXTENDS BulkIssuance
=============================================================================
