---------------------------- MODULE MCNetSingle ----------------------------
EXTENDS NetSingle
CONSTANTS game, realdb
MCProc == {game, realdb}
=============================================================================
