----------------------------- MODULE PluginState -----------------------------
(***************************************************************************)
(* What the shared plugin store promises the applications that use it: each *)
(* installation, removal, driver choice and change of a setting happens at *)
(* once and loses nothing another one wrote, and a file that does not      *)
(* parse is left as it is.  The promise has one gap.  A caller that cannot *)
(* open the file takes it for an empty one, and its own update is then all *)
(* that is left.                                                           *)
(***************************************************************************)
CONSTANTS Plugins, Revisions, Types, Keys, Values, None, Callers

VARIABLES state,     \* state.json: whether it parses, and its two maps
          settings,  \* settings.json: whether it parses, and its values
          blind      \* the callers that could not open their file

EmptyState == [ok |-> TRUE, active |-> [p \in Plugins |-> None],
               drivers |-> [ty \in Types |-> None]]
EmptySettings == [ok |-> TRUE, values |-> [k \in Keys |-> None]]

\* The file as a caller sees it.
Seen(c, file, empty) == IF c \in blind THEN empty ELSE file

Install(s, p, r) == state' = [s EXCEPT !.active[p] = r]

\* A plugin goes together with every driver choice that named it.
Remove(s, p) ==
    /\ s.active[p] # None
    /\ state' = [s EXCEPT !.active[p] = None,
                          !.drivers = [ty \in Types |->
                                         IF @[ty] = p THEN None ELSE @[ty]]]

Select(s, ty, d) == state' = [s EXCEPT !.drivers[ty] = d]

UpdateState(c) ==
    LET s == Seen(c, state, EmptyState)
    IN  /\ s.ok
        /\ \/ \E p \in Plugins, r \in Revisions : Install(s, p, r)
           \/ \E p \in Plugins : Remove(s, p)
           \/ \E ty \in Types, d \in Plugins \cup {None} : Select(s, ty, d)
        /\ UNCHANGED settings

UpdateSettings(c) ==
    LET s == Seen(c, settings, EmptySettings)
    IN  /\ s.ok
        /\ \E k \in Keys, v \in Values : settings' = [s EXCEPT !.values[k] = v]
        /\ UNCHANGED state

\* A caller is blind for one update at most.
Update(c) ==
    /\ UpdateState(c) \/ UpdateSettings(c)
    /\ blind' = blind \ {c}

CannotOpen(c) ==
    /\ blind' = blind \cup {c}
    /\ UNCHANGED <<state, settings>>

\* Calls that fail, and callers that die.
GiveUp ==
    /\ blind' \subseteq blind
    /\ UNCHANGED <<state, settings>>

Next == GiveUp \/ \E c \in Callers : Update(c) \/ CannotOpen(c)

Spec == blind = {} /\ [][Next]_<<state, settings, blind>>
=============================================================================
