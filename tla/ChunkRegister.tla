---------------------------- MODULE ChunkRegister ----------------------------
(***************************************************************************)
(* What a storage node promises its callers: per chunk id, a value that    *)
(* stores replace and deletions clear at one instant, and retrievals that  *)
(* return the value of the instant they were asked, or nothing.  A restart *)
(* forgets which value is current but not the values themselves: a caller  *)
(* that names an old one makes it current again.                           *)
(***************************************************************************)
CONSTANTS ChunkIds, Data, NoData, Readers

VARIABLES value,    \* the current data of every chunk id, or NoData
          past,     \* every data ever stored under the id
          pending,  \* per reader: the data its retrieval was promised
          result    \* per reader: what its last retrieval returned

vars == <<value, past, pending, result>>

Idle == [asked |-> FALSE, data |-> NoData]

Init == /\ value = [c \in ChunkIds |-> NoData]
        /\ past = [c \in ChunkIds |-> {}]
        /\ pending = [r \in Readers |-> Idle]
        /\ result = [r \in Readers |-> NoData]

Store(c, d) == /\ value' = [value EXCEPT ![c] = d]
               /\ past' = [past EXCEPT ![c] = @ \cup {d}]
               /\ UNCHANGED <<pending, result>>

Delete(c) == /\ value' = [value EXCEPT ![c] = NoData]
             /\ UNCHANGED <<past, pending, result>>

Ask(r, c, d) ==
  /\ ~pending[r].asked
  /\ d # NoData
  /\ d = value[c] \/ (value[c] = NoData /\ d \in past[c])
  /\ value' = [value EXCEPT ![c] = d]
  /\ pending' = [pending EXCEPT ![r] = [asked |-> TRUE, data |-> d]]
  /\ result' = [result EXCEPT ![r] = NoData]
  /\ UNCHANGED past

Miss(r, c) == /\ ~pending[r].asked
              /\ value[c] = NoData
              /\ result' = [result EXCEPT ![r] = NoData]
              /\ UNCHANGED <<value, past, pending>>

Return(r) == /\ pending[r].asked
             /\ \E d \in {pending[r].data, NoData} :
                  result' = [result EXCEPT ![r] = d]
             /\ pending' = [pending EXCEPT ![r] = Idle]
             /\ UNCHANGED <<value, past>>

Restart == /\ value' = [c \in ChunkIds |-> NoData]
           /\ pending' = [r \in Readers |-> Idle]
           /\ result' = [r \in Readers |-> NoData]
           /\ UNCHANGED past

Next == \/ \E c \in ChunkIds, d \in Data : Store(c, d)
        \/ \E c \in ChunkIds : Delete(c)
        \/ \E r \in Readers, c \in ChunkIds : Miss(r, c) \/ \E d \in Data : Ask(r, c, d)
        \/ \E r \in Readers : Return(r)
        \/ Restart

Spec == Init /\ [][Next]_vars
=============================================================================
