---------------------------- MODULE MCTcp ----------------------------
\* Tcp for TLC: the slots of the listening machine are alike.
EXTENDS Tcp, TLC

ServersAlike == Permutations(Servers)
======================================================================
