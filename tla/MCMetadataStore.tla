--------------------------- MODULE MCMetadataStore ---------------------------
(* A small instance of MetadataStore.                                      *)
EXTENDS MetadataStore

CONSTANTS s1, s2, p1, f1, f2

MCServers == {s1, s2}

R(c, s) == [chunk_id |-> c, server |-> s, path |-> p1, cut |-> FALSE]

(* The chunks of f1 have no, one or two replicas, on one server or on      *)
(* both; f2 is an empty file.                                              *)
MCVectors ==
  [f \in Files |-> IF f = f2 THEN {{}}
                   ELSE {{}, {R(0, s1)}, {R(1, s2)}, {R(0, s2), R(1, s1)},
                         {R(0, s1), R(0, s2), R(1, s2)}}]
=============================================================================
