----------------------------- MODULE MCSessions -----------------------------
\* Small instances of Sessions, in which Codex sessions are alike and so are
\* the keys.
EXTENDS Sessions, TLC

Alike == Permutations(Codex \ Background) \cup Permutations(Keys)
=============================================================================
