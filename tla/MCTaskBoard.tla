------------------------------ MODULE MCTaskBoard ------------------------------
EXTENDS TaskBoard
================================================================================
