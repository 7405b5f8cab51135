------------------------------ MODULE MCHandlers ------------------------------
(* Handlers for TLC: a serial handler that retries, a once handler, and an *)
(* exclusive one to add or to change the first into.                       *)
EXTENDS Handlers

CONSTANTS ha, hb, hc, m1, m2

H(n, p, ms, k) == [name |-> n, pri |-> p, match |-> ms, exclusive |-> FALSE, serial |-> FALSE,
                   held |-> FALSE, retry |-> 0, kind |-> k]

Serial == [H(ha, 2, {m1, m2}, "steps") EXCEPT !.serial = TRUE, !.retry = 1]
Once == H(hb, 1, {m1, m2}, "once")

MCConfigs == {<<Serial, Once>>}
MCDefs == {[H(ha, 0, {m2}, "steps") EXCEPT !.serial = TRUE, !.held = TRUE],
           [H(hc, 1, {m1}, "steps") EXCEPT !.exclusive = TRUE]}

=============================================================================
