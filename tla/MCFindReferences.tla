-------------------------- MODULE MCFindReferences --------------------------
(* Small instances of FindReferences: three projects and three files, of   *)
(* which cpp is active and h the file that matches it.                     *)
EXTENDS FindReferences, TLC

CONSTANTS p1, p2, p3, cpp, h, other

MCPlaceOf == p1 :> 1 @@ p2 :> 2 @@ p3 :> 3
MCFiles(a, b, c) == p1 :> a @@ p2 :> b @@ p3 :> c
MCLayout(files, shared) ==
  [files |-> files, shared |-> shared, sharedType |-> shared, active |-> cpp,
   matched |-> h, symFile |-> h]

\* No project that has either file; a file in two projects; a shared project; the
\* pair in different projects, with another one between them.
MCNeither == MCLayout(MCFiles({other}, {}, {}), {})
MCTwice == MCLayout(MCFiles({cpp, other}, {cpp}, {}), {})
MCShared == MCLayout(MCFiles({other}, {cpp, h}, {h}), {p3})
MCApart == MCLayout(MCFiles({cpp}, {other}, {h}), {})
MCLayouts == {MCNeither, MCTwice, MCShared, MCApart}

MCSearch(l, b, s, n) == [layout |-> l, behavior |-> b, scope |-> s, loads |-> n]
\* Loads, and those that overlap, beside the searches that show least.
MCSearches ==
  {MCSearch(MCNeither, "sfOnce", "solution", 2),
   MCSearch(MCNeither, "sfOnce", "file", 1),
   MCSearch(MCTwice, "sfOnce", "solution", 1)}
    \cup {MCSearch(l, "sfOnce", "projects", 0) : l \in {MCShared, MCApart}}
    \cup {MCSearch(l, "sfPerProject", "solution", 0) : l \in {MCTwice, MCApart}}
=============================================================================
