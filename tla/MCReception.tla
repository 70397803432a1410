----------------------------- MODULE MCReception -----------------------------
EXTENDS Reception

Sub(filter, capacity, overflow, echo) ==
  [filter |-> filter, capacity |-> capacity, overflow |-> overflow, echo |-> echo]

Spec(accept, reject, mode, limit, retries) ==
  [accept |-> accept, reject |-> reject, mode |-> mode, limit |-> limit, retries |-> retries]

MCSubscribeConfigs ==
  {Sub({1}, 1, "DropNewest", FALSE), Sub({1}, 2, "DropOldest", FALSE),
   Sub({1, 2}, 1, "Close", TRUE), Sub({1}, 0, "DropNewest", FALSE)}

MCResponseSpecs ==
  {Spec({1}, {2}, "First", 1, 1), Spec({1}, {}, "Exactly", 2, 1), Spec({1}, {}, "Window", 1, 0)}

CONSTANTS s1, s2, t1, t2

Setup(control, callers, count) ==
  [control |-> control, callers |-> callers, frames |-> count]

MCSetups ==
  {Setup(1, {s1}, 3), Setup(1, {t1}, 3), Setup(0, {s1, s2}, 1), Setup(3, {t1, t2}, 0),
   Setup(2, {s1, t1}, 0)}

WindowSetups == {Setup(1, {t1}, 2)}

WindowSpecs == {Spec({1}, {}, "Window", 1, 0)}
=============================================================================
