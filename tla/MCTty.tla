-------------------------------- MODULE MCTty --------------------------------
EXTENDS Tty
CONSTANTS program, shell
MCHome == [t \in Tasks |-> 1]
MCWrites ==
    [t \in Tasks |->
        IF t = program THEN {<<"y">>, <<"esc", "[", "digit", "m">>} ELSE {}]
MCReadSizes == [t \in Tasks |-> IF t = program THEN {} ELSE {1, 2}]
==============================================================================
