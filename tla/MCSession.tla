------------------------------ MODULE MCSession ------------------------------
EXTENDS Session

MCCommands == {"exit", "run"}
=============================================================================
