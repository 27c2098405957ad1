--------------------------- MODULE MCDurableModel ---------------------------
\* Two clients on one key.  c1 reuses its first sequence number for another
\* command and moves on to a second; c2 competes with a compare-and-swap.
\* Logs repeat and reorder these freely, as retries through several leaders do.
EXTENDS DurableModel, TLC

CONSTANTS a, b, c1, c2, k, v1, v2

Cmd(client, sequence, kind, value, expected) ==
  [client |-> client, sequence |-> sequence, kind |-> kind, key |-> k, value |-> value, expected |-> expected]

MCCommands == {
  Cmd(c1, 1, "put", v1, NoValue),
  Cmd(c1, 1, "cas", v2, NoValue),
  Cmd(c1, 2, "cas", v2, v1),
  Cmd(c2, 1, "cas", v1, v2),
  Cmd(c2, 2, "get", NoValue, NoValue)}

MCSymmetry == Permutations(Replicas)
=============================================================================
