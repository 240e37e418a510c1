------------------------- MODULE MCContainerAccess -------------------------
(* An instance of ContainerAccess: the mapped container w, another one whose *)
(* name begins so, and an id for a container that comes in the place of w.   *)
EXTENDS ContainerAccess

w == <<"w">>
wx == <<"w", "x">>
id1 == <<"1", "a", "c">>
id2 == <<"1", "b", "c">>
id3 == <<"2", "b", "c">>

MCName == {w, wx}
MCId == {id1, id2, id3}
MCFirstNames == [n \in MCName |-> IF n = w THEN id1 ELSE id2]
MCFirstProc == <<id1, Free>>
MCForwardTo == {w}
MCProxyTo == {w}
MCMappings == <<w, wx>>

At(versions, kind, ref, suffix, query) ==
    [versions |-> versions, kind |-> kind, ref |-> ref, suffix |-> suffix, query |-> query]

Beginnings == UNION {{SubSeq(s, 1, n) : n \in 1 .. Len(s)} : s \in MCName \cup MCId}

MCQuery ==
    {At(1, "container", ref, TRUE, FALSE) : ref \in Beginnings}
    \cup {At(0, "list", NoId, FALSE, TRUE), At(2, "list", NoId, FALSE, FALSE),
          At(0, "container", id1, FALSE, FALSE), At(1, "engine", NoId, FALSE, TRUE),
          At(0, "engine", wx, FALSE, TRUE), At(1, "engine", id2, FALSE, FALSE),
          At(0, "root", NoId, FALSE, FALSE), At(0, "other", NoId, FALSE, FALSE)}
=============================================================================
