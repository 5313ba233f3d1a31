---------------------------- MODULE MC_ImsMedia ----------------------------
EXTENDS ImsMedia

CONSTANTS l1, l2, null

MC_Listeners == {l1, l2}

=============================================================================
