--------------------------- MODULE MCProjectPatch ---------------------------
(* Model values and patches for TLC: f ends its lines with CRLF and is     *)
(* executable, g is plain, absent is not there yet.                         *)
EXTENDS ProjectPatch, TLC

CONSTANTS f, g, absent, a, b, c, x, y, r1, r2

MCDisk ==
    (f :> [text |-> <<a, b, c>>, crlf |-> TRUE, mode |-> "executable"])
    @@ (g :> [text |-> <<a>>, crlf |-> FALSE, mode |-> "plain"])
    @@ (absent :> Absent)

Hunk(start, count, new) == [start |-> start, count |-> count, new |-> new]
Section(kind, p, hunks) == [kind |-> kind, path |-> p, hunks |-> hunks]

MCPatches ==
    {<<Section("patch", f, <<Hunk(1, 1, <<x>>), Hunk(3, 1, <<c, y>>)>>),
       Section("patch", g, <<Hunk(1, 1, <<>>)>>)>>,
     <<Section("create", absent, <<Hunk(0, 0, <<x>>)>>), Section("patch", g, <<Hunk(1, 1, <<a, y>>)>>)>>,
     <<Section("patch", g, <<Hunk(1, 1, <<x>>)>>), Section("patch", g, <<Hunk(1, 1, <<y>>)>>)>>,
     <<[kind |-> "replace", path |-> g, old |-> a, new |-> x]>>,
     <<[kind |-> "fill", path |-> absent, new |-> <<x>>]>>,
     <<[kind |-> "delete", path |-> f]>>}

(* A hunk that adds a line, and one after it.                              *)
DriftPatches ==
    {<<Section("patch", f, <<Hunk(1, 1, <<a, x>>), Hunk(3, 1, <<y>>)>>)>>}

(* Requests have no order among themselves.                                *)
MCSymmetry == Permutations(Requests)
=============================================================================
