------------------------------ MODULE MCBackup ------------------------------
EXTENDS Backup

\* The newest backup of each of two ticks, and the newest of the last two: of
\* three backups one may be outside of both windows.
MCWindows == {[limit |-> 2, span |-> 1], [limit |-> 1, span |-> 2]}
=============================================================================
