------------------------------ MODULE MCUserSync ------------------------------
EXTENDS UserSync
CONSTANTS plain, custom

\* `custom` is `plain` with a custom inbound more.
MCBase == [s \in Shapes |-> IF s = custom THEN plain ELSE s]

\* The properties tell three cases of what has come between apart, and a step
\* only adds to it or empties it: states that differ in the rest of it alone
\* go on alike.
Between == IF suspect \subseteq {"midsync"} THEN suspect ELSE {"other"}
MCView == <<xray, monitor, db, believed, kick, structural, configError, loop, Between>>
=============================================================================
