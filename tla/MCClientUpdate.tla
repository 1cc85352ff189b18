--------------------------- MODULE MCClientUpdate ---------------------------
(* ClientUpdate for TLC: two or three releases, one of them a patch. *)
EXTENDS ClientUpdate, TLC

V1 == [major |-> 1, minor |-> 9, patch |-> 0]
V2 == [major |-> 1, minor |-> 9, patch |-> 1]
V3 == [major |-> 2, minor |-> 0, patch |-> 0]

Offer(latest, minimum) == [latest |-> latest, minimum |-> minimum]

TwoReleases   == {V1, V2}
ThreeReleases == {V1, V2, V3}

TwoManifests   == {Offer(V1, V1), Offer(V2, V1), Offer(V2, V2)}
ThreeManifests == {Offer(V2, V1), Offer(V3, V1)}

\* What a process that chats, cleans up or is asked still knows.
Settled(p) == [proc[p] EXCEPT !.target = NoVersion, !.required = FALSE,
                   !.result = NoResult, !.ok = FALSE, !.fresh = FALSE]

Remembers(p) ==
    IF proc[p].at \in {"sweeping", "removing", "checking", "chatting", "relaunched"}
    THEN Settled(p)
    ELSE IF proc[p].at \in {"asking", "locking"}
    THEN [proc[p] EXCEPT !.result = NoResult, !.ok = FALSE]
    ELSE proc[p]

View == <<lockVars, disk, [p \in Proc |-> Remembers(p)], published, installer, removed>>

Symmetry == Permutations(Proc) \cup Permutations(Inode)

=============================================================================
