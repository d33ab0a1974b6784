------------------------------- MODULE MCClient -------------------------------
EXTENDS Client

Alien == { [tag |-> "Info", slot |-> 2, dev |-> NoDevice] }
===============================================================================
