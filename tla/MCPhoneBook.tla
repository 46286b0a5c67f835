---------------------------- MODULE MCPhoneBook ----------------------------
EXTENDS PhoneBook, TLC
CONSTANTS n1, n2, n3
=============================================================================
