--------------------------- MODULE MCPluginStore ---------------------------
(* An application with two threads and another with one; a plugin package that *)
(* a driver choice can name, and two settings, so that updates of two entries *)
(* of each file meet.                                                         *)
EXTENDS PluginStore

CONSTANTS p1, p2, t1, t2, t3

\* The installer and the settings share the lock and nothing else, so one
\* behaviour can show what each does with a file that does not parse.
MCBroken == {{}, {"state", "settings"}}
MCProcessOf == [t \in Threads |-> IF t = t3 THEN p2 ELSE p1]
\* Every call but the ones that choose no driver or the default value again.
MCOffered == {j \in Jobs : /\ j.op = "select" => j.d # None
                           /\ j.op = "set" => j.v # Default}
============================================================================
