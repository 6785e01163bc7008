--------------------------- MODULE MCSessionManager ---------------------------
EXTENDS SessionManager, TLC

CONSTANTS a, b

\* The id of the first source is a beginning of that of the second, as in
\* "window-1" and "window-12".
NoPrefixes == <<>>
Prefixes == a :> {} @@ b :> {a}

Found(origin, granted, list) == [origin |-> origin, granted |-> granted, sources |-> list]

\* Discovery works, loses a source, finds nothing, and fails with and without
\* the permission; the example sources of a failure are left out.
ChangingCatalog ==
  {Found("runtime", TRUE, <<a, b>>), Found("runtime", TRUE, <<b>>), Found("runtime", TRUE, <<>>),
   Found("fallback", FALSE, <<>>), Found("fallback", TRUE, <<>>)}

SteadyCatalog == {Found("runtime", TRUE, <<>>)}
=============================================================================
