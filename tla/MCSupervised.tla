----------------------------- MODULE MCSupervised -----------------------------
EXTENDS Supervised
CONSTANTS u1, u2, plain, custom, broken

\* `custom` is `plain` with a custom inbound more, `broken` with one that does
\* not load. A process may exit whatever it runs.
MCBase == [s \in Shapes |-> plain]
MCConfig(s, users) == [shape |-> s, keys |-> [u \in Accounts |-> IF u \in users THEN 1 ELSE 0]]
MCPlain == {MCConfig(plain, {u1})}
MCPushed == {MCConfig(plain, {u1}), MCConfig(custom, {u2}), MCConfig(broken, {u2})}
=============================================================================
