----------------------------- MODULE MCInjection -----------------------------
\* Small instances of Injection: three items, of which a brief has room for one
\* in full and a reference to another urgent one, and an injection for one.
EXTENDS Injection

UrgentFirst == <<"stale", "drift", "peer">>
=============================================================================
