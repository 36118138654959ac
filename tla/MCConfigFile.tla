----------------------------- MODULE MCConfigFile -----------------------------
(***************************************************************************)
(* Three processes, a default and a named profile, two settings.           *)
(***************************************************************************)
EXTENDS ConfigFile, TLC

CONSTANTS dev, odd, s1, s2, v1, v2

\* set of every setting, one value of each kind; the awkward profile name is only ever set.
MCCommands ==
    {[kind |-> "set", profile |-> p, key |-> s, value |-> v1] : p \in {Default, dev}, s \in Settings}
    \cup {[kind |-> "set", profile |-> dev, key |-> s1, value |-> v2],
          [kind |-> "set", profile |-> odd, key |-> s1, value |-> v1],
          [kind |-> "set", profile |-> dev, key |-> Unknown, value |-> v1],
          [kind |-> "unset", profile |-> Default, key |-> s1],
          [kind |-> "unset", profile |-> dev, key |-> s1],
          [kind |-> "get", profile |-> dev, key |-> s1],
          [kind |-> "list"]}
    \cup {[kind |-> "load", profile |-> p, env |-> e] : p \in {NoProfile, dev}, e \in {<<>>, s1 :> v2}}

\* Each kind of content on its own, but no table without entries: list would show it, and unset
\* remove it.
HandWritten ==
    {[kind |-> "text", dumped |-> FALSE, data |-> [profiles |-> ps, rest |-> "nothing"]] :
        ps \in {<<>>, Default :> (s1 :> v1), dev :> (Unknown :> v1)}}
    \cup {[kind |-> "text", dumped |-> FALSE, data |-> [profiles |-> dev :> (s1 :> v1), rest |-> r]] :
        r \in Rest}

\* Nothing but a line break; a line, whole or cut, that goes to a table in front; one whose key is
\* none any more; a table of another text; something that is no profile.
MCEnds ==
    {[profiles |-> ps, rest |-> "nothing"] :
        ps \in {<<>>, Default :> (s2 :> v2), dev :> (s2 :> v2), dev :> (Unknown :> v1)}}
    \cup {[profiles |-> dev :> (s1 :> v1), rest |-> "scalars"]}

MCFiles == {NoFile} \cup HandWritten

Symmetry == Permutations(Processes)
===============================================================================
