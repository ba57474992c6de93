---------------------------- MODULE MCSlimSetup ----------------------------
EXTENDS SlimSetup

CONSTANTS a1, a2

With(url, config, secret, identity) ==
  [ slim_url |-> url, client_config |-> config,
    secret |-> secret, identity |-> identity ]

\* For one call every combination of options; for the other two ways to one
\* endpoint, another endpoint, and a conflict.
FewOptions ==
  { With("node", "none", "key", "none"), With("node", "none", "none", "slim"),
    With("none", "tls", "key", "none"), With("none", "tls", "key", "slim") }

AnyAndFew == [ a \in Setups |-> IF a = a1 THEN Options ELSE FewOptions ]
=============================================================================
