--------------------------- MODULE MCContactList ----------------------------
EXTENDS ContactList
=============================================================================
