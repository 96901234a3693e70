------------------------------ MODULE MCCardSync ------------------------------
(* Small instances of CardSync and its invariant. *)
EXTENDS CardSyncInvariant

\* Every clock is right.
MCExact == [a \in Devices \union Agents |-> 0]

\* The agent's clock is two edits behind.
MCAgentBehind == [a \in Devices \union Agents |-> IF a \in Agents THEN -2 ELSE 0]

\* The web client's clock is one edit behind, so that times may be equal.
MCWebLate == [a \in Devices \union Agents |-> IF a \in Web THEN -1 ELSE 0]

\* Installation ids come after every replica id.
MCInstallationId == [c \in Ios |-> 9]

\* The web client's clock is two edits behind.
MCWebBehind == [a \in Devices \union Agents |-> IF a \in Web THEN -2 ELSE 0]
=============================================================================
