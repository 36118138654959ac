---------------------------- MODULE MCApiClient ----------------------------
(***************************************************************************)
(* ApiClient for TLC: two origins, up to MaxRetries retries and            *)
(* MaxMaxHops hops, a status of every kind the code tells apart.           *)
(***************************************************************************)
EXTENDS ApiClient

CONSTANTS MaxRetries, MaxMaxHops

AllPolicies ==
    [retries : 0 .. MaxRetries, maxHops : -1 .. MaxMaxHops,
     retryUnsafe : BOOLEAN, preserveAuth : BOOLEAN, rewritePost : BOOLEAN]

\* retry_non_idempotent means nothing without retries, and the two redirect options
\* touch different fields of a request: they are switched off and on one at a time.
SomePolicies ==
    {p \in AllPolicies : /\ p.retryUnsafe => p.retries > 0
                         /\ p.preserveAuth => p.rewritePost}

=============================================================================
