------------------------------ MODULE MCInbox -------------------------------
EXTENDS Inbox, TLC

CONSTANTS p1, p2
=============================================================================
