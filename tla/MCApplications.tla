---------------------------- MODULE MCApplications ----------------------------
EXTENDS Applications
==============================================================================
