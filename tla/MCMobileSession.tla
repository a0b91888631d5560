---------------------------- MODULE MCMobileSession ----------------------------
EXTENDS MobileSession
================================================================================
