--------------------------------- MODULE Edges ---------------------------------
(***************************************************************************)
(* The straight parts of a recovered routine, as a set of edges between    *)
(* its places: pairs of a place and the one that follows it.               *)
(***************************************************************************)

Sources(edges) == {e[1] : e \in edges}

Targets(edges) == {e[2] : e \in edges}

(* Where the edges lead from a place: nowhere, if none begins there.       *)
EdgeEnds(edges, place) == {e[2] : e \in {d \in edges : d[1] = place}}
=============================================================================
