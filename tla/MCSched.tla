------------------------------- MODULE MCSched -------------------------------
EXTENDS Sched
MCSemInit == [s \in Sems |-> 0]
==============================================================================
