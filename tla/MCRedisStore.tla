---------------------------- MODULE MCRedisStore ----------------------------
(* Small instances of the Redis store for TLC.                             *)
EXTENDS RedisStore, TLC

CONSTANTS s1, s2, s3, u1, u2, x1, f1, cut, empty

TheServers == {s1, s2, s3}
TheUploads == {u1, u2}
ThePaths == TheUploads \cup {s1}
OneFile == {f1}
OfFile == [r \in {u1, u2, x1} |-> f1]

(* A file without chunks, one chunk on two servers or on one, two chunks.  *)
TheVectors == {{}, {<<0, s1>>}, {<<0, s1>>, <<0, s2>>}, {<<0, s2>>, <<0, s3>>},
               {<<0, s1>>, <<1, s1>>, <<1, s3>>}}
=============================================================================
