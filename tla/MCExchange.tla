----------------------------- MODULE MCExchange -----------------------------
EXTENDS Exchange
\* Every command line, minus the choices that its first failure hides.
Readable == {"flags", "body", "token"}
MCInvocations == {r \in Invocation : /\ r.readable # Readable => r.known /\ r.valid
                                     /\ ~r.known => r.valid
                                     /\ r.verb = "send" => ~r.timed}
=============================================================================
