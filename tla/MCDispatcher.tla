----------------------------- MODULE MCDispatcher -----------------------------
(* One object of each kind and the waits that make them meet: a wait for any   *)
(* and one for all that compete with single waits for the same objects.        *)
(* One thread creates the other, which may be waited for, suspended, resumed   *)
(* and closed.                                                                 *)
EXTENDS Dispatcher

CONSTANTS t1, t2

Wait(objs, all, timeout) == [objs |-> objs, all |-> all, timeout |-> timeout]

MCRequests ==
    { Wait(<<"auto">>, FALSE, "infinite"),
      Wait(<<"manual">>, FALSE, "infinite"),
      Wait(<<"mutant">>, FALSE, "infinite"),
      Wait(<<"sem">>, FALSE, "finite"),
      Wait(<<"auto", "sem">>, FALSE, "infinite"),
      Wait(<<"mutant", "sem">>, FALSE, "zero"),
      Wait(<<"sem", "mutant">>, TRUE, "infinite"),
      Wait(<<"auto", "sem">>, TRUE, "finite"),
      Wait(<<t2>>, FALSE, "infinite"),
      Wait(<<t2, "auto">>, FALSE, "finite"),
      Wait(<<"sem", t2>>, TRUE, "infinite") }

MCAuto   == {"auto"}
MCManual == {"manual"}
MCSem    == {"sem"}
MCMutant == {"mutant"}
==============================================================================
