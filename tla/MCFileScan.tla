----------------------------- MODULE MCFileScan -----------------------------
\* The lists of the web server, for TLC.
EXTENDS FileScan

CONSTANTS f1, f2

ScanLists == {<<f1, f2>>, <<f2>>, <<>>}

=============================================================================
