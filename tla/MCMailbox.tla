----------------------------- MODULE MCMailbox ------------------------------
EXTENDS Mailbox

CONSTANTS big, large, small, key
=============================================================================
